---- MODULE Spec2Model ----
(***************************************************************************)
(* Forecast reconciliation and serving core of quantiv.                    *)
(*   apps/ml/pipeline.py  : the Sink Writer (insert_forecasts to the       *)
(*                          Postgres row store, upsert_parquet_forecasts   *)
(*                          to the Parquet dataset) and the pipeline main. *)
(*   apps/backend/main.py : the cached read endpoints.                     *)
(***************************************************************************)
EXTENDS Integers, Sequences, FiniteSets, TLC

(***************************************************************************)
(* Bounds of the model.                                                    *)
(***************************************************************************)
MaxTs == 2          \* quote_ts instants are 1..MaxTs
MaxBatch == 2       \* rows in one batch handed to a sink

Procs == {1, 2}     \* writer processes (pipeline runs / sink callers)
Symbols == {"AAPL"}
ExpDates == {1}
PayloadLevels == {1, 2}
Instants == 1..MaxTs

(***************************************************************************)
(* Forecast rows: the 9-tuple built by compute_baseline_forecasts.  The    *)
(* forecast fields are kept in units of em/4 so that the default bands     *)
(* 0.75, 1.25, 0.50 and 1.50 times em are integers.                        *)
(***************************************************************************)
Row(sym, ts, exp, hz, p) ==
    [underlying |-> sym, quote_ts |-> ts, exp_date |-> exp, horizon |-> hz,
     em_baseline |-> 4 * p,
     band68_low |-> 3 * p, band68_high |-> 5 * p,
     band95_low |-> 2 * p, band95_high |-> 6 * p]

\* Order of the strings as Python and pandas compare them.
SymRank(s) == CASE s = "AAPL" -> 1 [] s = "MSFT" -> 2 [] OTHER -> 3
HorizonRank(h) == CASE h = "1d" -> 1 [] h = "5d" -> 2 [] h = "to_exp" -> 3 [] OTHER -> 4

KeyOf(r) == <<r.underlying, r.quote_ts, r.exp_date, r.horizon>>

Fields(r) == <<r.em_baseline, r.band68_low, r.band68_high, r.band95_low, r.band95_high>>

Range(s) == {s[i] : i \in 1..Len(s)}

RECURSIVE SeqsUpTo(_, _)
SeqsUpTo(S, n) ==
    IF n = 0 THEN {<<>>}
    ELSE LET shorter == SeqsUpTo(S, n - 1)
         IN  shorter \cup {Append(s, x) : s \in {t \in shorter : Len(t) = n - 1}, x \in S}

\* Rows a caller may hand to a sink directly: one symbol, one expiry, horizon to_exp.
SinkRows == {Row(sym, ts, exp, "to_exp", p) :
                sym \in Symbols, ts \in Instants, exp \in ExpDates, p \in PayloadLevels}

SinkBatches == SeqsUpTo(SinkRows, MaxBatch) \ {<<>>}

\* The symbol lists main hands to compute_baseline_forecasts: what
\* discover_symbols lists, in the order the partitions are found, or the
\* fallback ["AAPL", "MSFT"].
SymbolLists == {<<"AAPL">>, <<"AAPL", "MSFT">>, <<"MSFT", "AAPL">>}

\* The expiries of a symbol, nearest first.
RECURSIVE Ascending(_)
Ascending(S) ==
    IF S = {} THEN <<>>
    ELSE LET m == CHOOSE e \in S : \A f \in S : e <= f
         IN  <<m>> \o Ascending(S \ {m})

\* compute_baseline_forecasts at wall-clock time now_ts: for every symbol, in
\* the order of the list, one to_exp row per expiry, then the 1d and the 5d
\* row of the nearest expiry, all with quote_ts = now_ts.  p stands for the
\* level of the volatility read.
RECURSIVE BaselineRows(_, _, _)
BaselineRows(symbols, now_ts, p) ==
    IF symbols = <<>> THEN <<>>
    ELSE LET sym == Head(symbols)
             exps == Ascending(ExpDates)
             nearest_exp == exps[1]
         IN  [i \in 1..Len(exps) |-> Row(sym, now_ts, exps[i], "to_exp", p)]
             \o <<Row(sym, now_ts, nearest_exp, "1d", p), Row(sym, now_ts, nearest_exp, "5d", p)>>
             \o BaselineRows(Tail(symbols), now_ts, p)

compute_baseline_forecasts(symbols, now_ts, p) == BaselineRows(symbols, now_ts, p)

(***************************************************************************)
(* Row store: table em_forecasts with PRIMARY KEY                          *)
(* (underlying, quote_ts, exp_date, horizon); a set of rows.               *)
(***************************************************************************)
\* One INSERT ... ON CONFLICT (key) DO UPDATE SET <the five forecast columns>.
UpsertRow(table, r) ==
    IF \E x \in table : KeyOf(x) = KeyOf(r)
    THEN {IF KeyOf(x) = KeyOf(r)
          THEN [x EXCEPT !.em_baseline = r.em_baseline,
                         !.band68_low = r.band68_low, !.band68_high = r.band68_high,
                         !.band95_low = r.band95_low, !.band95_high = r.band95_high]
          ELSE x : x \in table}
    ELSE table \cup {r}

\* extras.execute_batch: the statement once per row, in the order of the batch.
RECURSIVE execute_batch(_, _)
execute_batch(table, rs) ==
    IF rs = <<>> THEN table ELSE execute_batch(UpsertRow(table, Head(rs)), Tail(rs))

insert_forecasts(table, rs) == execute_batch(table, rs)

(***************************************************************************)
(* Columnar store: the file forecasts/em_forecasts.parquet.  It is         *)
(* absent, unreadable (truncated, half written or corrupt) or a table, a   *)
(* sequence of rows.  The created_at column is not modelled.               *)
(***************************************************************************)
Absent == [state |-> "absent", table |-> <<>>]
Unreadable == [state |-> "unreadable", table |-> <<>>]
TableFile(t) == [state |-> "table", table |-> t]
IsTable(f) == f.state = "table"

\* A pandas frame: each row with the time-zone awareness of its quote_ts value.
\* Rows read back from Parquet are tz-naive (timestamp("ns") without zone); rows
\* built from the caller's tuples are tz-aware when the caller's datetimes are.
Frame(rs, tz) == [i \in 1..Len(rs) |-> [row |-> rs[i], tz |-> tz]]

\* Equality of the subset columns as pandas hashes them: a tz-aware Timestamp is
\* never equal to a tz-naive one, even for the same instant.
SameSubset(a, b) ==
    /\ a.row.underlying = b.row.underlying
    /\ a.row.quote_ts = b.row.quote_ts /\ a.tz = b.tz
    /\ a.row.exp_date = b.row.exp_date
    /\ a.row.horizon = b.row.horizon

RECURSIVE PickFrom(_, _, _)
PickFrom(df, keep, i) ==
    IF i > Len(df) THEN <<>>
    ELSE (IF i \in keep THEN <<df[i]>> ELSE <<>>) \o PickFrom(df, keep, i + 1)

\* df.drop_duplicates(subset=key, keep="last")
drop_duplicates(df) ==
    PickFrom(df, {i \in 1..Len(df) : ~\E j \in (i + 1)..Len(df) : SameSubset(df[i], df[j])}, 1)

\* pd.read_parquet inside try/except: an unreadable file gives an empty frame.
read_parquet(f) == IF f.state = "table" THEN f.table ELSE <<>>

\* Lines 584-596: the frame that will be sorted and written.
ConcatDedup(f, rs, tz) ==
    IF f # Absent
    THEN drop_duplicates(Frame(read_parquet(f), FALSE) \o Frame(rs, tz))
    ELSE Frame(rs, tz)

\* Lexicographic order of (underlying, quote_ts, exp_date, horizon).
KeyLess(a, b) ==
    \/ SymRank(a.underlying) < SymRank(b.underlying)
    \/ /\ a.underlying = b.underlying
       /\ \/ a.quote_ts < b.quote_ts
          \/ /\ a.quote_ts = b.quote_ts
             /\ \/ a.exp_date < b.exp_date
                \/ /\ a.exp_date = b.exp_date
                   /\ HorizonRank(a.horizon) < HorizonRank(b.horizon)

\* Ordering the quote_ts column compares its values: comparing a tz-naive with
\* a tz-aware Timestamp raises TypeError.
Sortable(df) == \A i, j \in 1..Len(df) : df[i].tz = df[j].tz

\* df.sort_values(by=key): a stable sort (lexsort over the four columns); rows
\* of equal key keep the order they had.
sort_values(df) ==
    LET before(i) ==
            {j \in 1..Len(df) : \/ KeyLess(df[j].row, df[i].row)
                                \/ (~KeyLess(df[i].row, df[j].row) /\ j < i)}
    IN  [n \in 1..Len(df) |-> df[CHOOSE i \in 1..Len(df) : Cardinality(before(i)) = n - 1]]

\* Lines 603-620: quote_ts to UTC and then tz-naive; the instant is kept.
Standardize(df) == [i \in 1..Len(df) |-> df[i].row]

\* pq.write_table(table, parquet_path): the file becomes the table, whatever it held.
write_table(current, table) == TableFile(table)

VARIABLES
    sink,        \* which sink the direct caller writes: "row", "columnar"; "both" for main
    clock,       \* the wall clock that datetime.now gives to the next pipeline run
    pg,          \* row store: set of rows
    parquet,     \* columnar store: Absent, Unreadable or TableFile(rows)
    pc,          \* per process: "idle", "insert", "upsert", "write", "writing"
    op,          \* per process: the call in progress or last ended: "none", "insert", "upsert", "main"
    rows,        \* per process: the batch of the call
    aware,       \* per process: whether the batch's quote_ts values are tz-aware
    df_old,      \* per process: what upsert_parquet_forecasts found at parquet_path
    df_all,      \* per process: the table upsert_parquet_forecasts is about to write
    pg_old,      \* per process: the row store when insert_forecasts was called directly
    outcome,     \* per process: how the last call ended: "none", "ok", "TypeError"
    overlapped,  \* per process: another process opened the file during this write
    observed     \* what the last reader of the file saw, and whether a write was under way

sinkVars == <<sink, clock, pg, parquet, pc, op, rows, aware, df_old, df_all, pg_old, outcome,
              overlapped, observed>>

VARIABLES
    endpoint,    \* the cached endpoint the requests call: "none" when no request is served
    backend,     \* DATA_BACKEND: "postgres", "duckdb" or "hybrid"
    now,         \* wall clock of the API process, in seconds
    redis,       \* the Redis entry of the requests' cache key
    latest,      \* per store, quote_ts of its latest record for the key (0: none); the run
    req,         \* per request: its position and its local variables
    refresh      \* refresh_task: "idle", or "delete" once it holds the keys it listed

cacheVars == <<endpoint, backend, now, redis, latest, req, refresh>>

VARIABLES
    duck_store,  \* the records the DuckDB view em_forecasts returns
    pg_store,    \* the records of the Postgres table em_forecasts
    call,        \* the backend operation invoked, with its arguments
    result,      \* what the operation returned, and what it asked of each store
    writes       \* the pipeline run under way: how far it got, and its rows

hybridVars == <<duck_store, pg_store, call, result, writes>>

VARIABLES
    iv,          \* what latest_iv_from_parquet returns, in hundredths, or None
    expiries,    \* what expiries_from_parquet returns: dates as days, today = Today0
    preds,       \* what predict_lightgbm_if_possible returns: key -> bands
    step,        \* position of the pipeline between its pure steps
    baseline,    \* the rows compute_baseline_forecasts returned
    blended,     \* merge_predictions_into_rows(baseline, preds)
    reblended    \* merge_predictions_into_rows(blended, preds)

blendVars == <<iv, expiries, preds, step, baseline, blended, reblended>>

VARIABLES
    cache,       \* redis: cache key -> entry
    forecasts,   \* the records of the store the backend reads
    wall,        \* wall clock of the API process, in seconds
    request,     \* per request: the handler's position, its parameters and locals
    response,    \* per request: the status and the body returned
    purge        \* the keys refresh_task listed and has yet to delete, or None

serveVars == <<cache, forecasts, wall, request, response, purge>>

VARIABLES
    env_backend, \* the environment: DATA_BACKEND and HYBRID_LAST_DAYS
    db_pool,     \* the asyncpg pool, or "None"
    duckdb_conn, \* the DuckDB connection, or "None"
    data_backend, \* the selected backend and the handles its adapters hold
    lifecycle    \* "created", "serving", "startup_failed" or "shutdown"

bootVars == <<env_backend, db_pool, duckdb_conn, data_backend, lifecycle>>

restVars == <<blendVars, serveVars, bootVars>>

vars == <<sinkVars, cacheVars, hybridVars, restVars>>

NoCall == [op |-> "none"]
NoResult == [status |-> "none"]

\* The backend operations are not part of the behaviours of the other
\* specifications.
\* An optional value: None, or the value x.
Null == <<>>
Some(x) == <<x>>

NoBlend ==
    /\ iv = Null
    /\ expiries = <<>>
    /\ preds = <<>>
    /\ step = "none"
    /\ baseline = <<>>
    /\ blended = <<>>
    /\ reblended = <<>>

Handlers == {1, 2}   \* requests served in one behaviour

\* No request has arrived; none was answered.
IdleHandler ==
    [endpoint |-> "none", symbol |-> "", horizons |-> <<>>, include_live |-> FALSE,
     exp |-> "", window |-> "", pc |-> "idle", key |-> <<>>, payload |-> Null,
     ops |-> <<>>, fault |-> FALSE]

NoResponse == [status |-> 0, body |-> Null]

NoServe ==
    /\ cache = <<>>
    /\ forecasts = {}
    /\ wall = 0
    /\ request = [r \in Handlers |-> IdleHandler]
    /\ response = [r \in Handlers |-> NoResponse]
    /\ purge = Null

NoBoot ==
    /\ env_backend = "none"
    /\ db_pool = "None"
    /\ duckdb_conn = "None"
    /\ data_backend = [kind |-> "none"]
    /\ lifecycle = "none"

NoRest == NoBlend /\ NoServe /\ NoBoot

\* No pipeline run has written anything.
NoWrites == [stage |-> "none", rows |-> <<>>]

NoHybrid ==
    /\ duck_store = {}
    /\ pg_store = {}
    /\ call = NoCall
    /\ result = NoResult
    /\ writes = NoWrites

Requests == {1, 2}

\* Neither store holds a record for the key, and no pipeline run is under way.
NoRecords == [pg |-> 0, duck |-> 0, run |-> "idle"]

NoEntry == [present |-> FALSE, val |-> 0, timestamp |-> 0, expire_at |-> 0]

IdleRequest ==
    [pc |-> "idle", got |-> "none", outdated |-> FALSE,
     d |-> 0, p |-> 0, val |-> 0, timestamp |-> 0, status |-> "none",
     n_get |-> 0, n_duck |-> 0, n_pg |-> 0, n_set |-> 0, set_failed |-> FALSE,
     err |-> "none"]

\* The API is not part of the behaviours of the sink specifications.
NoApi ==
    /\ NoRest
    /\ NoHybrid
    /\ endpoint = "none"
    /\ backend = "postgres"
    /\ now = 0
    /\ redis = NoEntry
    /\ latest = NoRecords
    /\ req = [r \in Requests |-> IdleRequest]
    /\ refresh = "idle"

InitSink ==
    /\ NoApi
    /\ clock = 1
    /\ pg = {}
    /\ parquet = Absent
    /\ pc = [w \in Procs |-> "idle"]
    /\ op = [w \in Procs |-> "none"]
    /\ rows = [w \in Procs |-> <<>>]
    /\ aware = [w \in Procs |-> FALSE]
    /\ df_old = [w \in Procs |-> Absent]
    /\ df_all = [w \in Procs |-> <<>>]
    /\ pg_old = [w \in Procs |-> {}]
    /\ outcome = [w \in Procs |-> "none"]
    /\ overlapped = [w \in Procs |-> FALSE]
    /\ observed = [kind |-> "none", during |-> FALSE]

(***************************************************************************)
(* insert_forecasts(conn, rows): one transaction, committed as a whole.    *)
(***************************************************************************)
InsertForecasts(w, rs, tz) ==
    /\ pc[w] = "idle"
    /\ sink = "row"
    /\ pg' = insert_forecasts(pg, rs)
    /\ pg_old' = [pg_old EXCEPT ![w] = pg]
    /\ rows' = [rows EXCEPT ![w] = rs]
    /\ aware' = [aware EXCEPT ![w] = tz]
    /\ op' = [op EXCEPT ![w] = "insert"]
    /\ outcome' = [outcome EXCEPT ![w] = "ok"]
    /\ UNCHANGED <<restVars, hybridVars, cacheVars, sink, clock, parquet, pc, df_old, df_all, overlapped, observed>>

(***************************************************************************)
(* upsert_parquet_forecasts(rows, data_dir), lines 565-635: build df_new,  *)
(* read the file if it exists, concatenate, drop duplicates, sort,         *)
(* standardize.  The sort raises when the column mixes tz-naive and        *)
(* tz-aware values; the call then ends without touching the file.          *)
(***************************************************************************)
\* Variant of UpsertBuild that holds a lock on the dataset from its read to the
\* end of its write: no other process reads or writes in between.
UpsertBuildLocked(w, rs, tz) ==
    \E df \in {ConcatDedup(parquet, rs, tz)} :
        /\ \A o \in Procs \ {w} : pc[o] \notin {"write", "writing"}
        /\ df_old' = [df_old EXCEPT ![w] = parquet]
        /\ IF Sortable(df)
           THEN /\ \E sorted \in {sort_values(df)} :
                       df_all' = [df_all EXCEPT ![w] = Standardize(sorted)]
                /\ pc' = [pc EXCEPT ![w] = "write"]
                /\ outcome' = [outcome EXCEPT ![w] = "none"]
           ELSE /\ df_all' = [df_all EXCEPT ![w] = <<>>]
                /\ pc' = [pc EXCEPT ![w] = "idle"]
                /\ outcome' = [outcome EXCEPT ![w] = "TypeError"]

UpsertBuild(w, rs, tz) ==
    \E df \in {ConcatDedup(parquet, rs, tz)} :
        /\ df_old' = [df_old EXCEPT ![w] = parquet]
        /\ IF Sortable(df)
           THEN /\ \E sorted \in {sort_values(df)} :
                       df_all' = [df_all EXCEPT ![w] = Standardize(sorted)]
                /\ pc' = [pc EXCEPT ![w] = "write"]
                /\ outcome' = [outcome EXCEPT ![w] = "none"]
           ELSE /\ df_all' = [df_all EXCEPT ![w] = <<>>]
                /\ pc' = [pc EXCEPT ![w] = "idle"]
                /\ outcome' = [outcome EXCEPT ![w] = "TypeError"]

UpsertParquetForecasts(w, rs, tz) ==
    /\ pc[w] = "idle"
    /\ sink = "columnar"
    /\ op' = [op EXCEPT ![w] = "upsert"]
    /\ rows' = [rows EXCEPT ![w] = rs]
    /\ aware' = [aware EXCEPT ![w] = tz]
    /\ UpsertBuild(w, rs, tz)
    /\ UNCHANGED <<restVars, hybridVars, cacheVars, sink, clock, pg, parquet, pg_old, overlapped, observed>>

\* pq.write_table opens parquet_path for writing: the file is created or truncated.
WriteOpen(w) ==
    /\ pc[w] = "write"
    /\ pc' = [pc EXCEPT ![w] = "writing"]
    /\ parquet' = Unreadable
    /\ overlapped' = [o \in Procs |->
                        IF o = w THEN \E x \in Procs \ {w} : pc[x] = "writing"
                        ELSE overlapped[o] \/ pc[o] = "writing"]
    /\ UNCHANGED <<restVars, hybridVars, cacheVars, sink, clock, pg, op, rows, aware, df_old, df_all, pg_old, outcome, observed>>

\* pq.write_table writes the footer and closes.  Bytes of two overlapping
\* writers mix.  While the other still has the file open, the file is this
\* writer's table (the other has written no more than the magic bytes) or
\* unreadable; a writer whose file was opened by another during its write
\* leaves its table or garbage.
WriteClose(w) ==
    /\ pc[w] = "writing"
    /\ pc' = [pc EXCEPT ![w] = "idle"]
    /\ outcome' = [outcome EXCEPT ![w] = "ok"]
    /\ IF (\E x \in Procs \ {w} : pc[x] = "writing") \/ overlapped[w]
       THEN parquet' \in {write_table(parquet, df_all[w]), Unreadable}
       ELSE parquet' = write_table(parquet, df_all[w])
    /\ UNCHANGED <<restVars, hybridVars, cacheVars, sink, clock, pg, op, rows, aware, df_old, df_all, pg_old, overlapped, observed>>

\* A reader of the dataset file (the DuckDB view em_forecasts over read_parquet).
ReadDataset ==
    /\ sink # "row"
    /\ observed' = [kind |-> parquet.state,
                    during |-> \E w \in Procs : pc[w] \in {"write", "writing"}]
    /\ UNCHANGED <<restVars, hybridVars, cacheVars, sink, clock, pg, parquet, pc, op, rows, aware, df_old, df_all, pg_old,
                   outcome, overlapped>>

(***************************************************************************)
(* Spec: one caller invoking one of the two sinks directly, and a reader   *)
(* of the dataset file.                                                    *)
(***************************************************************************)
Init ==
    /\ sink \in {"row", "columnar"}
    /\ InitSink

Next ==
    \/ \E rs \in SinkBatches, tz \in BOOLEAN : InsertForecasts(1, rs, tz)
    \/ \E rs \in SinkBatches, tz \in BOOLEAN : UpsertParquetForecasts(1, rs, tz)
    \/ WriteOpen(1)
    \/ WriteClose(1)
    \/ ReadDataset

Spec == Init /\ [][Next]_vars

(***************************************************************************)
(* SpecRecover: upsert_parquet_forecasts called on a dataset file that is  *)
(* absent, or present but not readable as Parquet.                         *)
(***************************************************************************)
InitRecover ==
    /\ NoApi
    /\ sink = "columnar"
    /\ clock = 1
    /\ pg = {}
    /\ parquet \in {Absent, Unreadable}
    /\ pc = [w \in Procs |-> "idle"]
    /\ op = [w \in Procs |-> "none"]
    /\ rows = [w \in Procs |-> <<>>]
    /\ aware = [w \in Procs |-> FALSE]
    /\ df_old = [w \in Procs |-> Absent]
    /\ df_all = [w \in Procs |-> <<>>]
    /\ pg_old = [w \in Procs |-> {}]
    /\ outcome = [w \in Procs |-> "none"]
    /\ overlapped = [w \in Procs |-> FALSE]
    /\ observed = [kind |-> "none", during |-> FALSE]

NextRecover ==
    \/ \E rs \in SinkBatches, tz \in BOOLEAN :
            ~IsTable(parquet) /\ UpsertParquetForecasts(1, rs, tz)
    \/ WriteOpen(1)
    \/ WriteClose(1)

SpecRecover == InitRecover /\ [][NextRecover]_vars

(***************************************************************************)
(* main(), lines 657-682: compute the rows (every quote_ts is the run's    *)
(* datetime.now(timezone.utc), tz-aware), insert them into Postgres, then  *)
(* upsert them into the Parquet dataset.  An exception of the upsert       *)
(* leaves main after the insert was committed.                             *)
(***************************************************************************)
MainStart(w, symbols, p) ==
    /\ pc[w] = "idle"
    /\ sink = "both"
    /\ clock <= MaxTs
    /\ rows' = [rows EXCEPT ![w] = compute_baseline_forecasts(symbols, clock, p)]
    /\ aware' = [aware EXCEPT ![w] = TRUE]
    /\ clock' = clock + 1
    /\ op' = [op EXCEPT ![w] = "main"]
    /\ pc' = [pc EXCEPT ![w] = "insert"]
    /\ outcome' = [outcome EXCEPT ![w] = "none"]
    /\ UNCHANGED <<restVars, hybridVars, cacheVars, sink, pg, parquet, df_old, df_all, pg_old, overlapped, observed>>

MainInsert(w) ==
    /\ pc[w] = "insert"
    /\ pg' = insert_forecasts(pg, rows[w])
    /\ pc' = [pc EXCEPT ![w] = "upsert"]
    /\ UNCHANGED <<restVars, hybridVars, cacheVars, sink, clock, parquet, op, rows, aware, df_old, df_all, pg_old, outcome,
                   overlapped, observed>>

\* Variant: a failed upsert takes the run's rows back out of the row store.
MainUpsertRollback(w) ==
    /\ pc[w] = "upsert"
    /\ UpsertBuild(w, rows[w], aware[w])
    /\ pg' = IF Sortable(ConcatDedup(parquet, rows[w], aware[w]))
             THEN pg ELSE pg \ Range(rows[w])
    /\ UNCHANGED <<restVars, hybridVars, cacheVars, sink, clock, parquet, op, rows, aware, pg_old, overlapped, observed>>

MainUpsert(w) ==
    /\ pc[w] = "upsert"
    /\ UpsertBuild(w, rows[w], aware[w])
    /\ UNCHANGED <<restVars, hybridVars, cacheVars, sink, clock, pg, parquet, op, rows, aware, pg_old, overlapped, observed>>

InitMain ==
    /\ sink = "both"
    /\ InitSink

NextMain ==
    \/ \E w \in Procs, symbols \in SymbolLists, p \in PayloadLevels : MainStart(w, symbols, p)
    \/ \E w \in Procs : MainInsert(w)
    \/ \E w \in Procs : MainUpsert(w)
    \/ \E w \in Procs : WriteOpen(w)
    \/ \E w \in Procs : WriteClose(w)
    \/ ReadDataset

SpecMain == InitMain /\ [][NextMain]_vars

\* Pipeline runs one at a time: a run starts only when no other is in progress.
NextMainSeq ==
    \/ \E w \in Procs, symbols \in SymbolLists, p \in PayloadLevels :
          (\A o \in Procs : pc[o] = "idle") /\ MainStart(w, symbols, p)
    \/ \E w \in Procs : MainInsert(w)
    \/ \E w \in Procs : MainUpsert(w)
    \/ \E w \in Procs : WriteOpen(w)
    \/ \E w \in Procs : WriteClose(w)
    \/ ReadDataset

SpecMainSeq == InitMain /\ [][NextMainSeq]_vars

(***************************************************************************)
(* SpecMainFaults: runs one at a time, with the failures of Postgres.      *)
(* get_conn raising ends main in sys.exit(1) before any row is computed;   *)
(* an exception of insert_forecasts rolls its transaction back and leaves  *)
(* main, like the exception of the upsert, uncaught.                       *)
(***************************************************************************)
MainConnectFail(w) ==
    /\ pc[w] = "idle"
    /\ sink = "both"
    /\ op' = [op EXCEPT ![w] = "main"]
    /\ rows' = [rows EXCEPT ![w] = <<>>]
    /\ aware' = [aware EXCEPT ![w] = TRUE]
    /\ outcome' = [outcome EXCEPT ![w] = "SystemExit"]
    /\ UNCHANGED <<restVars, hybridVars, cacheVars, sink, clock, pg, parquet, pc, df_old, df_all, pg_old, overlapped,
                   observed>>

MainInsertFail(w) ==
    /\ pc[w] = "insert"
    /\ pc' = [pc EXCEPT ![w] = "idle"]
    /\ outcome' = [outcome EXCEPT ![w] = "DatabaseError"]
    /\ UNCHANGED <<restVars, hybridVars, cacheVars, sink, clock, pg, parquet, op, rows, aware, df_old, df_all, pg_old,
                   overlapped, observed>>

\* The exit status of the process: 0 when main returns, 1 on sys.exit(1) and
\* on an uncaught exception.
ExitStatus(o) == IF o = "ok" THEN 0 ELSE 1

NextMainFaults ==
    \/ \E w \in Procs, symbols \in SymbolLists, p \in PayloadLevels :
          (\A o \in Procs : pc[o] = "idle") /\ MainStart(w, symbols, p)
    \/ \E w \in Procs : (\A o \in Procs : pc[o] = "idle") /\ MainConnectFail(w)
    \/ \E w \in Procs : MainInsert(w)
    \/ \E w \in Procs : MainInsertFail(w)
    \/ \E w \in Procs : MainUpsert(w)
    \/ \E w \in Procs : WriteOpen(w)
    \/ \E w \in Procs : WriteClose(w)
    \/ ReadDataset

SpecMainFaults == InitMain /\ [][NextMainFaults]_vars

(***************************************************************************)
(* The cached read endpoints of the API.  One behaviour serves one         *)
(* endpoint under one DATA_BACKEND; the requests are for the same cache    *)
(* key.                                                                    *)
(***************************************************************************)
MaxTicks == 2       \* the wall clock advances at most this many times
MaxVer == 2         \* the stores receive at most this many newer records

FreshMinutes == 5
TtlExpectedMove == 300
TtlEm == 600
TickSeconds == TtlExpectedMove

Endpoints == {"expected_move", "em_forecast", "em_history", "em_expiries"}
Backends == {"postgres", "duckdb", "hybrid"}

\* main.py 519: datetime.now() - cached_time < timedelta(minutes=5)
\* Variant: an entry aged exactly the threshold still counts as fresh.
IsFreshInclusive(t, cached_time) == t - cached_time <= FreshMinutes * 60
IsFresh(t, cached_time) == t - cached_time < FreshMinutes * 60

Ttl(ep) == IF ep = "expected_move" THEN TtlExpectedMove ELSE TtlEm

\* The endpoints whose miss path answers 404 when the stores have no record.
Raises404(ep) == ep \in {"expected_move", "em_forecast"}

\* The quote_ts values the adapters return: DuckDB gives the timestamp("ns")
\* column of the dataset as tz-naive Timestamps, asyncpg gives the TIMESTAMPTZ
\* column as tz-aware datetimes.
DuckAware == FALSE
PgAware == TRUE

\* The dates the adapters return: DuckDB gives the date32 column as pandas
\* Timestamps, asyncpg gives datetime.date.  pandas 2 refuses to order a
\* Timestamp and a date (TypeError); pandas 1 orders them, and the two are
\* different members of a set.  The build decides which, the source pins
\* neither.
StrictDates == BOOLEAN

\* HybridBackend compares the quote_ts of a DuckDB record with that of a
\* Postgres record when both adapters returned one (main.py 325, 332, 345);
\* comparing a tz-naive with a tz-aware value raises TypeError, which no
\* handler catches.  get_expiries sorts the dates of both (351), which
\* raises TypeError where a Timestamp and a date have no order.
HybridRaises(ep, d, p, strict) ==
    /\ d # 0 /\ p # 0
    /\ IF ep = "em_expiries" THEN strict ELSE DuckAware # PgAware

\* HybridBackend.get_latest_for_symbol_exp: d if d.quote_ts >= p.quote_ts else p; d or p.
HybridLatest(d, p) ==
    IF d # 0 /\ p # 0 THEN (IF d >= p THEN d ELSE p) ELSE (IF d # 0 THEN d ELSE p)

BackendResult(mode, d, p) ==
    CASE mode = "postgres" -> p
      [] mode = "duckdb" -> d
      [] OTHER -> HybridLatest(d, p)

\* The record the backend in use finds in the stores as they are.
StoreLatest(mode) == BackendResult(mode, latest.duck, latest.pg)

\* What a request does after its cache lookup returned an entry it accepts.
\* Variant: the request goes on to the backend read as on a miss.
AfterHitFallsThrough(mode) == IF mode = "postgres" THEN "read_pg" ELSE "read_duck"
AfterHit(mode) == "done"

AfterMiss(mode) == IF mode = "postgres" THEN "read_pg" ELSE "read_duck"

\* The try/except around every cache call: the error is logged, not raised.
\* Variant: no try/except, the error of the cache call reaches the caller.
CacheErrorRaised == FALSE
CacheErrorSwallowed == TRUE

InitApi ==
    /\ NoRest
    /\ NoHybrid
    /\ endpoint \in Endpoints
    /\ backend \in Backends
    /\ now = 0
    /\ redis = NoEntry
    /\ latest = NoRecords
    /\ req = [r \in Requests |-> IdleRequest]
    /\ refresh = "idle"

NoSink ==
    /\ sink = "none"
    /\ clock = 1
    /\ pg = {}
    /\ parquet = Absent
    /\ pc = [w \in Procs |-> "idle"]
    /\ op = [w \in Procs |-> "none"]
    /\ rows = [w \in Procs |-> <<>>]
    /\ aware = [w \in Procs |-> FALSE]
    /\ df_old = [w \in Procs |-> Absent]
    /\ df_all = [w \in Procs |-> <<>>]
    /\ pg_old = [w \in Procs |-> {}]
    /\ outcome = [w \in Procs |-> "none"]
    /\ overlapped = [w \in Procs |-> FALSE]
    /\ observed = [kind |-> "none", during |-> FALSE]

\* redis_client.get and the test on what it returned.
CacheLookup(r, fails) ==
    /\ req[r].pc = "idle"
    /\ endpoint \in Endpoints
    /\ \A o \in Requests : o < r => req[o].pc # "idle"    \* numbered by arrival
    /\ LET got == IF fails THEN "failed"
                  ELSE IF ~redis.present THEN "absent"
                  ELSE IF endpoint = "expected_move" /\ ~IsFresh(now, redis.timestamp)
                       THEN "stale"
                  ELSE "hit"
           \* history: the entry held was written earlier and the stores moved on since
           outdated == redis.present /\ redis.val # StoreLatest(backend)
                         /\ now > redis.expire_at - Ttl(endpoint)
           q == [req[r] EXCEPT !.got = got, !.outdated = outdated, !.n_get = @ + 1]
       IN  req' = [req EXCEPT ![r] =
                CASE got = "hit" ->
                        [q EXCEPT !.val = redis.val, !.timestamp = redis.timestamp,
                                  !.status = IF AfterHit(backend) = "done" THEN "200" ELSE "none",
                                  !.pc = AfterHit(backend)]
                  [] got = "failed" /\ ~CacheErrorSwallowed ->
                        [q EXCEPT !.status = "500", !.pc = "done"]
                  [] OTHER -> [q EXCEPT !.pc = AfterMiss(backend)]]
    /\ UNCHANGED <<endpoint, backend, refresh, now, redis, latest, sinkVars, hybridVars, restVars>>

\* No handler and no backend catches what a store query or the merge
\* raises: the request ends 500 there, with err naming what raised.  The
\* adapters' results d and p are dead once the backend read has ended.
Raised(q, what) ==
    [q EXCEPT !.d = 0, !.p = 0, !.status = "500", !.pc = "done", !.err = what]

\* The end of the backend read: 500 when the hybrid merge raises, 404 when
\* nothing was found.
AfterRead(q, strict) ==
    LET rec == BackendResult(backend, q.d, q.p)
    IN  IF backend = "hybrid" /\ HybridRaises(endpoint, q.d, q.p, strict)
        THEN Raised(q, "merge")
        ELSE IF Raises404(endpoint) /\ rec = 0
        THEN [q EXCEPT !.d = 0, !.p = 0, !.status = "404", !.pc = "done"]
        ELSE [q EXCEPT !.d = 0, !.p = 0, !.val = rec, !.pc = "build"]

\* The query of the DuckDB adapter.  It raises when DuckDB fails, and it
\* cannot read the dataset while pq.write_table rewrites the file in place;
\* the hybrid backend then never asks Postgres (main.py 315-316).
ReadDuck(r, fails) ==
    /\ req[r].pc = "read_duck"
    /\ LET q == [req[r] EXCEPT !.d = latest.duck, !.n_duck = @ + 1]
       IN  req' = [req EXCEPT ![r] =
                IF fails \/ latest.run = "writing" THEN Raised(q, "duck")
                ELSE IF backend = "hybrid" THEN [q EXCEPT !.pc = "read_pg"]
                ELSE AfterRead(q, TRUE)]
    /\ UNCHANGED <<endpoint, backend, refresh, now, redis, latest, sinkVars, hybridVars, restVars>>

\* The query of the Postgres adapter, which raises when Postgres fails, and
\* in hybrid mode the merge of the two answers.
ReadPg(r, fails, strict) ==
    /\ req[r].pc = "read_pg"
    /\ LET q == [req[r] EXCEPT !.p = latest.pg, !.n_pg = @ + 1]
       IN  req' = [req EXCEPT ![r] = IF fails THEN Raised(q, "pg") ELSE AfterRead(q, strict)]
    /\ UNCHANGED <<endpoint, backend, refresh, now, redis, latest, sinkVars, hybridVars, restVars>>

\* The response payload; only /api/expected-move embeds datetime.now().
BuildPayload(r) ==
    /\ req[r].pc = "build"
    /\ req' = [req EXCEPT ![r] =
            [req[r] EXCEPT !.timestamp = IF endpoint = "expected_move" THEN now ELSE 0,
                           !.pc = "set"]]
    /\ UNCHANGED <<endpoint, backend, refresh, now, redis, latest, sinkVars, hybridVars, restVars>>

\* SETEX replaces whatever the key holds.
\* Variant: the write keeps the entry held when its timestamp is greater.
SetexIfNewer(current, entry) ==
    IF current.present /\ current.timestamp > entry.timestamp THEN current ELSE entry
Setex(current, entry) == entry

\* redis_client.setex(cache_key, ttl, payload), then the response.
CacheSet(r, fails) ==
    /\ req[r].pc = "set"
    /\ redis' = IF fails THEN redis
                ELSE Setex(redis, [present |-> TRUE, val |-> req[r].val,
                                   timestamp |-> req[r].timestamp,
                                   expire_at |-> now + Ttl(endpoint)])
    /\ req' = [req EXCEPT ![r] =
            [req[r] EXCEPT !.n_set = @ + 1, !.set_failed = fails, !.pc = "done",
                      !.status = IF fails /\ ~CacheErrorSwallowed THEN "500" ELSE "200"]]
    /\ UNCHANGED <<endpoint, backend, refresh, now, latest, sinkVars, hybridVars, restVars>>

\* Wall-clock passage; Redis drops the entry when its expiry is reached.
Tick ==
    /\ endpoint \in Endpoints
    /\ now < MaxTicks * TickSeconds
    /\ now' = now + TickSeconds
    /\ redis' = IF redis.present /\ now' >= redis.expire_at THEN NoEntry ELSE redis
    /\ UNCHANGED <<endpoint, backend, refresh, latest, req, sinkVars, hybridVars, restVars>>

\* A pipeline run, first half: insert_forecasts commits a newer record for
\* the key to Postgres (pipeline.py 677).
RunInsert ==
    /\ endpoint \in Endpoints
    /\ latest.run = "idle"
    /\ latest.pg < MaxVer
    /\ latest' = [latest EXCEPT !.pg = @ + 1, !.run = "inserted"]
    /\ UNCHANGED <<endpoint, backend, refresh, now, redis, req, sinkVars, hybridVars, restVars>>

\* Second half: upsert_parquet_forecasts (680), up to the start of its
\* write.  On a dataset that holds records the sort of the old tz-naive with
\* the new tz-aware quote_ts raises TypeError (599-601) and the file stays as
\* it was; the call may also fail for other reasons.  Otherwise
\* pq.write_table (653) opens the file of the dataset for writing.  What was
\* committed to Postgres stays.
RunUpsert(fails) ==
    /\ latest.run = "inserted"
    /\ latest' = [latest EXCEPT !.run = IF fails \/ latest.duck # 0 THEN "idle" ELSE "writing"]
    /\ UNCHANGED <<endpoint, backend, refresh, now, redis, req, sinkVars, hybridVars, restVars>>

\* pq.write_table returns: the file holds the run's record.  From its
\* opening to here the file is written in place and DuckDB cannot read it.
RunWriteClose ==
    /\ latest.run = "writing"
    /\ latest' = [latest EXCEPT !.duck = latest.pg, !.run = "idle"]
    /\ UNCHANGED <<endpoint, backend, refresh, now, redis, req, sinkVars, hybridVars, restVars>>

\* refresh_task of /api/admin/refresh-forecasts, first await:
\* keys = await redis_client.keys("em_forecast:*").  With no key listed, or when
\* the call raises, the task ends.
RefreshKeys(fails) ==
    /\ endpoint = "expected_move"
    /\ refresh = "idle"
    /\ refresh' = IF ~fails /\ redis.present THEN "delete" ELSE "idle"
    /\ UNCHANGED <<endpoint, backend, now, redis, latest, req, sinkVars, hybridVars, restVars>>

\* Second await: redis_client.delete(*keys) removes whatever the listed keys
\* hold by now; an error is logged.
RefreshForecasts(fails) ==
    /\ refresh = "delete"
    /\ refresh' = "idle"
    /\ redis' = IF fails THEN redis ELSE NoEntry
    /\ UNCHANGED <<endpoint, backend, now, latest, req, sinkVars, hybridVars, restVars>>

InitCache == NoSink /\ InitApi

NextCache ==
    \/ \E r \in Requests, fails \in BOOLEAN : CacheLookup(r, fails)
    \/ \E r \in Requests, fails \in BOOLEAN : ReadDuck(r, fails)
    \/ \E r \in Requests, fails \in BOOLEAN, strict \in StrictDates : ReadPg(r, fails, strict)
    \/ \E r \in Requests : BuildPayload(r)
    \/ \E r \in Requests, fails \in BOOLEAN : CacheSet(r, fails)
    \/ Tick
    \/ RunInsert
    \/ \E fails \in BOOLEAN : RunUpsert(fails)
    \/ RunWriteClose
    \/ \E fails \in BOOLEAN : RefreshKeys(fails)
    \/ \E fails \in BOOLEAN : RefreshForecasts(fails)

SpecCache == InitCache /\ [][NextCache]_vars

(***************************************************************************)
(* The store adapters of the API (PostgresBackend, DuckDBBackend) and the  *)
(* federated HybridBackend.  quote_ts is counted in days, Today being the  *)
(* day of the call; exp_date is counted in days from Today.  A pipeline    *)
(* run stamps its rows with the instant it runs at, which no stored record *)
(* has.                                                                    *)
(***************************************************************************)
MaxDay == 3         \* quote_ts of the stored records are the days 1..MaxDay

LatestLimit == 50
DuckPrefetch == 200
ExpiriesLimit == 50
SymbolsLimit == 100
AllHorizonsLimit == 1000

Today == MaxDay

\* quote_ts of the rows of a pipeline run during the call: datetime.now(),
\* later than every stored quote_ts and inside every look-back window.
RunInstant == MaxDay + 1
Days == 1..MaxDay
Windows == 1..(MaxDay - 1)

\* The records a small store is drawn from, all of payload level p.
SmallRows(p) ==
    {Row("AAPL", ts, 1, "to_exp", p) : ts \in Days}
    \cup {Row("AAPL", Today, 2, "to_exp", p), Row("AAPL", Today, 1, "1d", p),
          Row("MSFT", Today, 1, "to_exp", p)}

Stores(p) == {{}} \cup {{a, b} : a, b \in SmallRows(p)}

\* The stores of at most one record.
Singles(p) == {{}} \cup {{a} : a \in SmallRows(p)}

\* Stores with more expirations than a result may list.
BulkDuck == {Row("AAPL", Today, e, "to_exp", 1) : e \in 1..(LatestLimit + 10)}
BulkPg ==
    {Row("AAPL", Today, e, "to_exp", 2) : e \in {1} \cup ((LatestLimit + 1)..(2 * LatestLimit - 1))}

\* A store whose last day holds more records than the DuckDB adapter
\* prefetches: the 1d records sort before the to_exp ones.
BulkLastDay ==
    {Row("AAPL", Today, e, "1d", 1) : e \in 1..DuckPrefetch}
    \cup {Row("AAPL", Today, e, "to_exp", 1) : e \in (DuckPrefetch + 1)..(DuckPrefetch + 5)}

None == [underlying |-> "none"]

Min(a, b) == IF a <= b THEN a ELSE b
Max(a, b) == IF a >= b THEN a ELSE b

Keyed(k, r) == [k |-> k, r |-> r]

\* ORDER BY: the rows of a result set in ascending order of their sort key
\* (the keys of a result set are distinct).
OrderBy(S) ==
    LET ks == {x.k : x \in S}
        lo == CHOOSE k \in ks : \A j \in ks : k <= j
        hi == CHOOSE k \in ks : \A j \in ks : k >= j
        In(k) == k \in ks
        sorted == SelectSeq([i \in 1..(hi - lo + 1) |-> lo + i - 1], In)
    IN  IF S = {} THEN <<>>
        ELSE [n \in 1..Len(sorted) |-> (CHOOSE x \in S : x.k = sorted[n]).r]

\* The elements of s at the positions in K, in the order of s.
AtPositions(s, K) ==
    LET In(i) == i \in K
        at == SelectSeq([i \in 1..Len(s) |-> i], In)
    IN  [n \in 1..Len(at) |-> s[at[n]]]

\* LIMIT n, head(n), [:n]
Limit(s, n) == IF Len(s) <= n THEN s ELSE SubSeq(s, 1, n)

SelectSeq2(s, keep) == AtPositions(s, {i \in 1..Len(s) : s[i] \in keep})

MapRange(s) == {s[i] : i \in 1..Len(s)}

\* ORDER BY quote_ts DESC, exp_date ASC.  The order of rows equal on both is
\* not specified by the query: a result set has them in either order of
\* their horizons.
TieOrders == {"asc", "desc"}
LatestOrder(r, ties) ==
    (RunInstant - r.quote_ts) * 10000 + r.exp_date * 10
        + (IF ties = "asc" THEN HorizonRank(r.horizon) ELSE 5 - HorizonRank(r.horizon))

\* PostgresBackend.get_latest_forecasts
PgLatestForecasts(store, symbol, horizons, ties) ==
    Limit(OrderBy({Keyed(LatestOrder(r, ties), r) : r \in
              {x \in store : /\ x.underlying = symbol
                             /\ x.horizon \in horizons
                             /\ x.quote_ts >= Today - 1}}),
          LatestLimit)

\* DuckDBBackend.get_latest_forecasts: LIMIT 200, then the horizons, then head(50)
DuckLatestForecasts(store, symbol, horizons, ties) ==
    LET df == Limit(OrderBy({Keyed(LatestOrder(r, ties), r) : r \in
                       {x \in store : x.underlying = symbol /\ x.quote_ts >= Today - 1}}),
                    DuckPrefetch)
        filtered == IF horizons # {}
                    THEN SelectSeq2(df, {x \in MapRange(df) : x.horizon \in horizons})
                    ELSE df
    IN  Limit(filtered, LatestLimit)

\* get_latest_for_symbol_exp of both adapters: ORDER BY quote_ts DESC LIMIT 1
LatestForSymbolExp(store, symbol, exp) ==
    LET rs == {x \in store : x.underlying = symbol /\ x.exp_date = exp /\ x.horizon = "to_exp"}
    IN  IF rs = {} THEN None
        ELSE CHOOSE x \in rs : \A y \in rs : x.quote_ts >= y.quote_ts

\* The columns of a history row.
HistoryItem(r) ==
    [quote_ts |-> r.quote_ts, em_baseline |-> r.em_baseline,
     band68_low |-> r.band68_low, band68_high |-> r.band68_high,
     band95_low |-> r.band95_low, band95_high |-> r.band95_high]

\* get_history_for_symbol_exp of both adapters: ORDER BY quote_ts ASC
HistoryForSymbolExp(store, symbol, exp, window_days) ==
    OrderBy({Keyed(r.quote_ts, HistoryItem(r)) : r \in
        {x \in store : /\ x.underlying = symbol /\ x.exp_date = exp /\ x.horizon = "to_exp"
                       /\ x.quote_ts >= Today - window_days}})

\* get_expiries of both adapters: DISTINCT exp_date ... ORDER BY exp_date ASC LIMIT 50
Expiries(store, symbol, days) ==
    Limit(OrderBy({Keyed(e, e) : e \in
              {x.exp_date : x \in {y \in store : /\ y.underlying = symbol
                                                /\ y.exp_date >= 0
                                                /\ y.exp_date <= days}}}),
          ExpiriesLimit)

\* get_symbols of both adapters: GROUP BY underlying
\* ORDER BY forecast_count DESC, underlying LIMIT 100
SymbolCounts(store, days) ==
    LET recent == {x \in store : x.quote_ts >= Today - days}
        count(sym) == Cardinality({x \in recent : x.underlying = sym})
    IN  Limit(OrderBy({Keyed((Cardinality(store) - count(sym)) * 10 + SymRank(sym),
                             [symbol |-> sym, forecast_count |-> count(sym)])
                       : sym \in {x.underlying : x \in recent}}),
              SymbolsLimit)

\* The columns of a row of get_symbol_history_all_horizons.
AllHorizonsItem(r) ==
    [quote_ts |-> r.quote_ts, horizon |-> r.horizon, em_baseline |-> r.em_baseline,
     band68_low |-> r.band68_low, band68_high |-> r.band68_high]

\* get_symbol_history_all_horizons of both adapters:
\* ORDER BY quote_ts DESC, horizon LIMIT 1000.  Rows equal on both differ in
\* exp_date, and the query leaves their order open: a result set has them
\* in either order of their expirations.
SymbolHistoryAllHorizons(store, symbol, days, ties) ==
    Limit(OrderBy({Keyed((RunInstant - r.quote_ts) * 10000 + HorizonRank(r.horizon) * 1000
                            + (IF ties = "asc" THEN r.exp_date ELSE 999 - r.exp_date),
                         AllHorizonsItem(r))
                   : r \in {x \in store : x.underlying = symbol /\ x.quote_ts >= Today - days}}),
          AllHorizonsLimit)

\* for rec in d + p: if key not in seen: seen.add(key); out.append(rec)
\* A record whose key was seen at an earlier position is skipped.
DedupFirst(s) ==
    AtPositions(s, {i \in 1..Len(s) : \A j \in 1..(i - 1) : s[j].k # s[i].k})

\* list.sort(key=..., reverse=...) is stable in both directions: elements of
\* equal sort key keep the order they had.
PySort(s, reverse) ==
    LET before(i) ==
            {j \in 1..Len(s) : \/ (IF reverse THEN s[j].s > s[i].s ELSE s[j].s < s[i].s)
                               \/ (s[j].s = s[i].s /\ j < i)}
        rank == [i \in 1..Len(s) |-> Cardinality(before(i))]
    IN  [n \in 1..Len(s) |-> s[CHOOSE i \in 1..Len(s) : rank[i] = n - 1]]

Recs(s) == [i \in 1..Len(s) |-> s[i].r]

\* What a method of HybridBackend ends with: the value it returns, or the
\* TypeError raised by a comparison of quote_ts values.
Returns(x) == [status |-> "ok", data |-> x]
TypeError == [status |-> "TypeError", data |-> <<>>]

\* d + p: the records of DuckDB, then those of Postgres, each with the
\* time-zone awareness of its quote_ts.
Zone(d, i) == IF i <= Len(d) THEN DuckAware ELSE PgAware

\* A tz-naive and a tz-aware quote_ts are never equal and have no order:
\* sorting a list that holds both raises TypeError.
Mixed(s) == \E i \in 1..Len(s) : s[i].tz # s[1].tz

\* HybridBackend.get_latest_forecasts, from the adapters' results d and p
HybridLatestForecasts(d, p) ==
    LET all == d \o p
        tagged == [i \in 1..Len(all) |->
                     [k |-> <<Zone(d, i), all[i].quote_ts, all[i].exp_date, all[i].horizon>>,
                      s |-> all[i].quote_ts * 1000 + all[i].exp_date,
                      tz |-> Zone(d, i),
                      r |-> all[i]]]
        out == DedupFirst(tagged)
    IN  IF Mixed(out) THEN TypeError
        ELSE Returns(Limit(Recs(PySort(out, TRUE)), LatestLimit))

\* HybridBackend.get_latest_for_symbol_exp
HybridLatestForSymbolExp(d, p) ==
    IF d # None /\ p # None
    THEN (IF DuckAware # PgAware THEN TypeError
          ELSE Returns(IF d.quote_ts >= p.quote_ts THEN d ELSE p))
    ELSE Returns(IF d # None THEN d ELSE p)

\* HybridBackend.get_history_for_symbol_exp
HybridHistory(d, p) ==
    LET all == d \o p
        tagged == [i \in 1..Len(all) |->
                     [k |-> <<Zone(d, i), all[i].quote_ts>>, s |-> all[i].quote_ts,
                      tz |-> Zone(d, i), r |-> all[i]]]
        out == DedupFirst(tagged)
    IN  IF Mixed(out) THEN TypeError ELSE Returns(Recs(PySort(out, FALSE)))

\* HybridBackend.get_expiries: sorted(list(ds | ps))[:50].  The dates of
\* DuckDB are pandas Timestamps, those of Postgres are datetime.date: a date
\* both stores hold is in the union twice, and sorted raises TypeError where
\* the two have no order (strict).  ds and ps each hold a date once.
HybridExpiries(ds, ps, strict) ==
    LET all == ds \o ps
        tagged == [i \in 1..Len(all) |->
                     [k |-> <<i <= Len(ds), all[i]>>, s |-> all[i], r |-> all[i]]]
    IN  IF strict /\ ds # <<>> /\ ps # <<>> THEN TypeError
        ELSE Returns(Limit(Recs(PySort(DedupFirst(tagged), FALSE)), ExpiriesLimit))

\* agg[symbol] = agg.get(symbol, 0) + forecast_count, over ds + ps; a dict
\* lists its keys in the order of their first insertion.
HybridSymbols(ds, ps) ==
    LET all == ds \o ps
        sum(sym) == LET idx == {i \in 1..Len(all) : all[i].symbol = sym}
                        RECURSIVE Sum(_)
                        Sum(I) == IF I = {} THEN 0
                                  ELSE LET i == CHOOSE x \in I : TRUE
                                       IN  all[i].forecast_count + Sum(I \ {i})
                    IN  Sum(idx)
        first == DedupFirst([i \in 1..Len(all) |-> [k |-> all[i].symbol, r |-> all[i]]])
        out == [i \in 1..Len(first) |->
                   [s |-> sum(first[i].k) * 10 + SymRank(first[i].k),
                    r |-> [symbol |-> first[i].k, forecast_count |-> sum(first[i].k)]]]
    IN  Limit(Recs(PySort(out, TRUE)), SymbolsLimit)

\* HybridBackend.get_symbol_history_all_horizons
HybridAllHorizons(d, p) ==
    LET all == d \o p
        tagged == [i \in 1..Len(all) |->
                     [k |-> <<Zone(d, i), all[i].quote_ts, all[i].horizon>>,
                      s |-> all[i].quote_ts * 10 + HorizonRank(all[i].horizon),
                      tz |-> Zone(d, i),
                      r |-> all[i]]]
        out == DedupFirst(tagged)
    IN  IF Mixed(out) THEN TypeError
        ELSE Returns(Limit(Recs(PySort(out, TRUE)), AllHorizonsLimit))

\* HybridBackend.__init__: self.last_days = max(1, int(last_days))
LastDays(cfg) == Max(1, cfg)

(***************************************************************************)
(* One call of a backend operation.  The backend in use is the adapter of  *)
(* one store or the HybridBackend over both; an adapter's query may raise, *)
(* and no method of HybridBackend catches what an adapter raises: the      *)
(* DuckDB adapter is awaited first, the Postgres adapter after it.  The    *)
(* DuckDB adapter answers without yielding; the hybrid is suspended in its *)
(* await of the Postgres adapter, and a pipeline run may write in between. *)
(* A result has the status "ok", "error" when an adapter raised, or         *)
(* "TypeError" when the merge of the two answers raised.                   *)
(***************************************************************************)
Failures == {"none", "duck", "pg"}
HorizonSets == {{}, {"to_exp"}, {"to_exp", "1d"}}
ExpiryDays == {1, 120}
Configured == {1, 2}      \* the last_days a HybridBackend is built with

\* The failures a backend can meet, and the last_days a backend is built with.
Setup(mode, fails, cfg, windowed) ==
    /\ call = NoCall
    /\ fails = "duck" => mode # "postgres"
    /\ fails = "pg" => mode # "duckdb"
    /\ cfg # 1 => (mode = "hybrid" /\ windowed)

DuckAsked(mode) == mode \in {"duckdb", "hybrid"}

\* What the operation has after its first await: d and p are the answers of
\* the DuckDB and of the Postgres adapter, dw and pw the windows they were
\* asked for.  A single-store backend returns its adapter's answer.  The
\* hybrid has DuckDB's answer, which DuckDBBackend computes without yielding,
\* and is suspended in p = await self.pg...: the Postgres adapter yields to
\* the event loop in pool.acquire() and conn.fetch().
Answer(mode, fails, d, p, dw, pw) ==
    [status |-> IF (DuckAsked(mode) /\ fails = "duck") \/ (mode = "postgres" /\ fails = "pg")
                THEN "error"
                ELSE IF mode = "hybrid" THEN "pending" ELSE "ok",
     data |-> CASE mode = "duckdb" /\ fails # "duck" -> d
                [] mode = "postgres" /\ fails # "pg" -> p
                [] OTHER -> <<>>,
     duck |-> IF DuckAsked(mode) /\ fails # "duck" THEN d ELSE <<>>,
     pg |-> IF mode = "postgres" /\ fails # "pg" THEN p ELSE <<>>,
     duck_window |-> IF DuckAsked(mode) THEN dw ELSE 0,
     pg_window |-> IF mode = "postgres" THEN pw ELSE 0]

\* The hybrid operation `name` is suspended in its await of the Postgres adapter.
Suspended(name) == call.op = name /\ result.status = "pending"

\* The hybrid operation resumes with the Postgres adapter's answer p, asked
\* for the window pw, and ends as the merge of the two answers ends; what
\* the adapter raises is raised.
Merge(p, merged, pw) ==
    IF call.fails = "pg"
    THEN [result EXCEPT !.status = "error", !.pg_window = pw]
    ELSE [result EXCEPT !.status = merged.status, !.data = merged.data,
                        !.pg = p, !.pg_window = pw]

Called(name, mode, fails, cfg, symbol, exp, horizons, days) ==
    [op |-> name, mode |-> mode, fails |-> fails, last_days |-> cfg,
     symbol |-> symbol, exp_date |-> exp, horizons |-> horizons, days |-> days,
     writes |-> writes]

GetLatestForecasts(mode, fails, horizons, ties) ==
    /\ Setup(mode, fails, 1, FALSE)
    /\ call' = Called("get_latest_forecasts", mode, fails, 1, "AAPL", 0, horizons, 0)
    /\ result' = Answer(mode, fails, DuckLatestForecasts(duck_store, "AAPL", horizons, ties),
                        PgLatestForecasts(pg_store, "AAPL", horizons, ties), 0, 0)
    /\ UNCHANGED <<duck_store, pg_store, writes, sinkVars, cacheVars, restVars>>

HybridGetLatestForecasts(ties) ==
    /\ Suspended("get_latest_forecasts")
    /\ LET p == PgLatestForecasts(pg_store, call.symbol, call.horizons, ties)
       IN  result' = Merge(p, HybridLatestForecasts(result.duck, p), 0)
    /\ UNCHANGED <<duck_store, pg_store, call, writes, sinkVars, cacheVars, restVars>>

GetLatestForSymbolExp(mode, fails, exp) ==
    /\ Setup(mode, fails, 1, FALSE)
    /\ call' = Called("get_latest_for_symbol_exp", mode, fails, 1, "AAPL", exp, {}, 0)
    /\ result' = Answer(mode, fails, LatestForSymbolExp(duck_store, "AAPL", exp),
                        LatestForSymbolExp(pg_store, "AAPL", exp), 0, 0)
    /\ UNCHANGED <<duck_store, pg_store, writes, sinkVars, cacheVars, restVars>>

HybridGetLatestForSymbolExp ==
    /\ Suspended("get_latest_for_symbol_exp")
    /\ LET p == LatestForSymbolExp(pg_store, call.symbol, call.exp_date)
       IN  result' = Merge(p, HybridLatestForSymbolExp(result.duck, p), 0)
    /\ UNCHANGED <<duck_store, pg_store, call, writes, sinkVars, cacheVars, restVars>>

GetHistoryForSymbolExp(mode, fails, cfg, exp, window_days) ==
    /\ Setup(mode, fails, cfg, TRUE)
    /\ call' = Called("get_history_for_symbol_exp", mode, fails, cfg, "AAPL", exp, {}, window_days)
    /\ result' = Answer(mode, fails,
                        HistoryForSymbolExp(duck_store, "AAPL", exp, Max(1, window_days)),
                        HistoryForSymbolExp(pg_store, "AAPL", exp, window_days),
                        window_days, window_days)
    /\ UNCHANGED <<duck_store, pg_store, writes, sinkVars, cacheVars, restVars>>

HybridGetHistoryForSymbolExp ==
    /\ Suspended("get_history_for_symbol_exp")
    /\ LET pw == Min(LastDays(call.last_days), call.days)
           p == HistoryForSymbolExp(pg_store, call.symbol, call.exp_date, pw)
       IN  result' = Merge(p, HybridHistory(result.duck, p), pw)
    /\ UNCHANGED <<duck_store, pg_store, call, writes, sinkVars, cacheVars, restVars>>

GetExpiries(mode, fails, days) ==
    /\ Setup(mode, fails, 1, FALSE)
    /\ call' = Called("get_expiries", mode, fails, 1, "AAPL", 0, {}, days)
    /\ result' = Answer(mode, fails, Expiries(duck_store, "AAPL", Max(1, days)),
                        Expiries(pg_store, "AAPL", days), 0, 0)
    /\ UNCHANGED <<duck_store, pg_store, writes, sinkVars, cacheVars, restVars>>

HybridGetExpiries(strict) ==
    /\ Suspended("get_expiries")
    /\ LET ps == Expiries(pg_store, call.symbol, call.days)
       IN  result' = Merge(ps, HybridExpiries(result.duck, ps, strict), 0)
    /\ UNCHANGED <<duck_store, pg_store, call, writes, sinkVars, cacheVars, restVars>>

GetSymbols(mode, fails, cfg, days) ==
    /\ Setup(mode, fails, cfg, TRUE)
    /\ call' = Called("get_symbols", mode, fails, cfg, "", 0, {}, days)
    /\ result' = Answer(mode, fails, SymbolCounts(duck_store, Max(1, days)),
                        SymbolCounts(pg_store, days), days, days)
    /\ UNCHANGED <<duck_store, pg_store, writes, sinkVars, cacheVars, restVars>>

HybridGetSymbols ==
    /\ Suspended("get_symbols")
    /\ LET ps == SymbolCounts(pg_store, call.days)
       IN  result' = Merge(ps, Returns(HybridSymbols(result.duck, ps)), call.days)
    /\ UNCHANGED <<duck_store, pg_store, call, writes, sinkVars, cacheVars, restVars>>

GetSymbolHistoryAllHorizons(mode, fails, cfg, days, ties) ==
    /\ Setup(mode, fails, cfg, TRUE)
    /\ call' = Called("get_symbol_history_all_horizons", mode, fails, cfg, "AAPL", 0, {}, days)
    /\ result' = Answer(mode, fails,
                        SymbolHistoryAllHorizons(duck_store, "AAPL", Max(1, days), ties),
                        SymbolHistoryAllHorizons(pg_store, "AAPL", days, ties), days, days)
    /\ UNCHANGED <<duck_store, pg_store, writes, sinkVars, cacheVars, restVars>>

HybridGetSymbolHistoryAllHorizons(ties) ==
    /\ Suspended("get_symbol_history_all_horizons")
    /\ LET pw == Min(LastDays(call.last_days), call.days)
           p == SymbolHistoryAllHorizons(pg_store, call.symbol, pw, ties)
       IN  result' = Merge(p, HybridAllHorizons(result.duck, p), pw)
    /\ UNCHANGED <<duck_store, pg_store, call, writes, sinkVars, cacheVars, restVars>>

\* A pipeline run while a hybrid operation is suspended.  The symbols main
\* runs for: those discover_symbols lists, or the fallback.
RunSymbols == {<<"MSFT">>, <<"AAPL", "MSFT">>}

\* main, up to the commit of insert_forecasts (pipeline.py 674-677): the rows
\* of the run, for every symbol its to_exp rows and the 1d and 5d row, all
\* with the instant of the run as quote_ts, are committed to Postgres in one
\* transaction, next to the records the store holds.
PipelineInsert(symbols) ==
    /\ writes.stage = "none"
    /\ result.status = "pending"
    /\ \E rs \in {compute_baseline_forecasts(symbols, RunInstant, 2)} :
          /\ pg_store' = insert_forecasts(pg_store, rs)
          /\ writes' = [stage |-> "inserted", rows |-> rs]
    /\ UNCHANGED <<duck_store, call, result, sinkVars, cacheVars, restVars>>

\* upsert_parquet_forecasts on a dataset that holds records: sort_values
\* (599-601) compares the tz-naive quote_ts read from the file with the
\* tz-aware ones of the run and raises TypeError before anything is written.
UpsertRaises(store, rs) == store # {} /\ rs # <<>>

\* main after the commit (680): upsert_parquet_forecasts writes the rows of
\* the run to the dataset of the DuckDB view when the dataset holds none,
\* and leaves the dataset as it was when it raises, for the TypeError or for
\* another failure.  What was committed to Postgres stays.  The suspended
\* operation has DuckDB's answer already; the file is not read while it is
\* written.
PipelineUpsert(fails) ==
    /\ writes.stage = "inserted"
    /\ result.status = "pending"
    /\ LET raises == fails \/ UpsertRaises(duck_store, writes.rows)
       IN  /\ duck_store' = IF raises THEN duck_store ELSE Range(writes.rows)
           /\ writes' = [writes EXCEPT !.stage = IF raises THEN "failed" ELSE "written"]
    /\ UNCHANGED <<pg_store, call, result, sinkVars, cacheVars, restVars>>

\* The DuckDB view holds level-1 records; the Postgres table holds the same
\* records or level-2 records of its own.  Both are small, or both hold more
\* expirations than a result may list.
InitHybrid ==
    /\ NoSink
    /\ NoRest
    /\ endpoint = "none"
    /\ backend = "hybrid"
    /\ now = 0
    /\ redis = NoEntry
    /\ latest = NoRecords
    /\ req = [r \in Requests |-> IdleRequest]
    /\ refresh = "idle"
    /\ \/ duck_store \in Stores(1) /\ pg_store \in Singles(2) \cup {duck_store}
       \/ duck_store = {} /\ pg_store \in Stores(2)
       \/ duck_store = BulkDuck /\ pg_store \in {BulkPg, BulkDuck, {}}
       \/ duck_store = BulkLastDay /\ pg_store = BulkLastDay
    /\ call = NoCall
    /\ result = NoResult
    /\ writes = NoWrites

NextHybrid ==
    \/ \E mode \in Backends, fails \in Failures, horizons \in HorizonSets, ties \in TieOrders :
          GetLatestForecasts(mode, fails, horizons, ties)
    \/ \E ties \in TieOrders : HybridGetLatestForecasts(ties)
    \/ \E mode \in Backends, fails \in Failures, exp \in {1, 2} :
          GetLatestForSymbolExp(mode, fails, exp)
    \/ HybridGetLatestForSymbolExp
    \/ \E mode \in Backends, fails \in Failures, cfg \in Configured, exp \in {1, 2}, w \in Windows :
          GetHistoryForSymbolExp(mode, fails, cfg, exp, w)
    \/ HybridGetHistoryForSymbolExp
    \/ \E mode \in Backends, fails \in Failures, days \in ExpiryDays :
          GetExpiries(mode, fails, days)
    \/ \E strict \in StrictDates : HybridGetExpiries(strict)
    \/ \E mode \in Backends, fails \in Failures, cfg \in Configured, days \in Windows :
          GetSymbols(mode, fails, cfg, days)
    \/ HybridGetSymbols
    \/ \E mode \in Backends, fails \in Failures, cfg \in Configured, days \in Windows,
          ties \in TieOrders :
          GetSymbolHistoryAllHorizons(mode, fails, cfg, days, ties)
    \/ \E ties \in TieOrders : HybridGetSymbolHistoryAllHorizons(ties)
    \/ \E symbols \in RunSymbols : PipelineInsert(symbols)
    \/ \E fails \in BOOLEAN : PipelineUpsert(fails)

SpecHybrid == InitHybrid /\ [][NextHybrid]_vars

(***************************************************************************)
(* The pure steps of the pipeline: compute_baseline_forecasts for one      *)
(* symbol and merge_predictions_into_rows.  Volatilities are in            *)
(* hundredths, the square root is the integer square root of the year      *)
(* fraction in ten-thousandths, and the forecast fields keep the unit em/4 *)
(* of Row.                                                                 *)
(***************************************************************************)
MaxAhead == 1        \* expirations lie up to MaxAhead days after today

EM_ALPHA == 1
DefaultIv == 20
FallbackDays == 7
TodayDate == 2
NowTs == 1
ExpiryDates == (TodayDate - 1)..(TodayDate + MaxAhead)

ISqrt(n) == CHOOSE r \in 0..n : r * r <= n /\ (r + 1) * (r + 1) > n

\* iv = latest_iv_from_parquet(...) or 0.2
IvOr(x) == IF x = Null \/ x = Some(0) THEN DefaultIv ELSE x[1]

\* Variant: an expiration on or before today counts no days.
DteUnclamped(exp, today) == IF exp - today >= 0 THEN exp - today ELSE 0

\* dte = max(1, (exp - date.today()).days)
Dte(exp, today) == Max(1, exp - today)

\* em = EM_ALPHA * iv * (t_days / 365.0) ** 0.5, as the level em/4 of Row
EmLevel(v, t_days) == EM_ALPHA * v * ISqrt((t_days * 10000) \div 365)

\* expiries = expiries_from_parquet(...); if not expiries: [today + 7]
ExpiriesOr(exps, today) == IF exps = <<>> THEN <<today + FallbackDays>> ELSE exps

\* The rows compute_baseline_forecasts appends for one symbol.
BaselineOfSymbol(sym, now_ts, x, exps, today) ==
    LET v == IvOr(x)
        es == ExpiriesOr(exps, today)
        to_exp == [i \in 1..Len(es) |->
                     Row(sym, now_ts, es[i], "to_exp", EmLevel(v, Dte(es[i], today)))]
    IN  to_exp \o <<Row(sym, now_ts, es[1], "1d", EmLevel(v, 1)),
                    Row(sym, now_ts, es[1], "5d", EmLevel(v, 5))>>

BandNames == {"band68_low", "band68_high", "band95_low", "band95_high"}

\* p.get(name): None for a missing name as for a None value
Get(p, name) == IF name \in DOMAIN p THEN p[name] ELSE Null

\* Variant: a predicted band is added to the band of the row.
PickBandAdding(p, name, old) == IF Get(p, name) # Null THEN Get(p, name)[1] + old ELSE old

\* Variant: a predicted band of None erases the band of the row.
PickBandErasing(p, name, old) == IF Get(p, name) # Null THEN Get(p, name)[1] ELSE 0

\* p.get(name, old) if p.get(name) is not None else old
PickBand(p, name, old) == IF Get(p, name) # Null THEN Get(p, name)[1] ELSE old

\* The body of the loop of merge_predictions_into_rows.
MergeRow(r, ps) ==
    LET k == KeyOf(r)
        p == IF k \in DOMAIN ps THEN ps[k] ELSE <<>>
    IN  IF DOMAIN p # {}
        THEN [r EXCEPT !.band68_low = PickBand(p, "band68_low", @),
                       !.band68_high = PickBand(p, "band68_high", @),
                       !.band95_low = PickBand(p, "band95_low", @),
                       !.band95_high = PickBand(p, "band95_high", @)]
        ELSE r

merge_predictions_into_rows(rs, ps) ==
    IF DOMAIN ps = {} THEN rs ELSE [i \in 1..Len(rs) |-> MergeRow(rs[i], ps)]

\* The dicts a key of the predictions may map to, and the predictions.
Dict(names, f(_)) == [n \in names |-> f(n)]
FewBands(n) == IF n = "band68_low" THEN Some(1) ELSE IF n = "band68_high" THEN Some(900) ELSE Null
AllBands(n) ==
    CASE n = "band95_low" -> Some(0) [] n = "band68_low" -> Some(1)
      [] n = "band68_high" -> Some(900) [] n = "band95_high" -> Some(1000)
Crossed(n) == IF n = "band68_low" THEN Some(1000) ELSE Some(1)
NoBands(n) == Null
Dicts ==
    {Dict({}, NoBands), Dict(BandNames, NoBands), Dict(BandNames, FewBands),
     Dict(BandNames, AllBands), Dict({"band68_low", "band68_high"}, Crossed)}

PredKeys ==
    {<<"AAPL", NowTs, TodayDate, "to_exp">>, <<"AAPL", NowTs, TodayDate, "1d">>,
     <<"MSFT", NowTs, TodayDate, "to_exp">>}
Predictions == UNION {[K -> Dicts] : K \in SUBSET PredKeys}

IvReads == {Null, Some(0), Some(50), Some(-10)}
ExpiryLists ==
    {<<>>} \cup {<<e>> : e \in ExpiryDates}
    \cup {l \in ExpiryDates \X ExpiryDates : l[1] < l[2]}

ComputeBaseline ==
    /\ step = "start"
    /\ baseline' = BaselineOfSymbol("AAPL", NowTs, iv, expiries, TodayDate)
    /\ step' = "computed"
    /\ UNCHANGED <<iv, expiries, preds, blended, reblended, serveVars, bootVars,
                   sinkVars, cacheVars, hybridVars>>

MergePredictions ==
    /\ step = "computed"
    /\ blended' = merge_predictions_into_rows(baseline, preds)
    /\ step' = "merged"
    /\ UNCHANGED <<iv, expiries, preds, baseline, reblended, serveVars, bootVars,
                   sinkVars, cacheVars, hybridVars>>

MergeAgain ==
    /\ step = "merged"
    /\ reblended' = merge_predictions_into_rows(blended, preds)
    /\ step' = "merged_twice"
    /\ UNCHANGED <<iv, expiries, preds, baseline, blended, serveVars, bootVars,
                   sinkVars, cacheVars, hybridVars>>

NoCache ==
    /\ endpoint = "none"
    /\ backend = "postgres"
    /\ now = 0
    /\ redis = NoEntry
    /\ latest = NoRecords
    /\ req = [r \in Requests |-> IdleRequest]
    /\ refresh = "idle"

InitBlend ==
    /\ NoSink /\ NoCache /\ NoHybrid /\ NoServe /\ NoBoot
    /\ iv \in IvReads
    /\ expiries \in ExpiryLists
    /\ preds \in Predictions
    /\ step = "start"
    /\ baseline = <<>>
    /\ blended = <<>>
    /\ reblended = <<>>

NextBlend == ComputeBaseline \/ MergePredictions \/ MergeAgain

SpecBlend == InitBlend /\ [][NextBlend]_vars

(***************************************************************************)
(* The request handlers get_expected_move, em_forecast, em_history and     *)
(* em_expiries over the Postgres adapter.  A handler is a coroutine: it gives the event     *)
(* loop back at every await (redis get, backend read, live quote, redis    *)
(* setex), and the handlers of other requests, the refresh task and the    *)
(* pipeline run in between.  request[r].ops lists what the handler of      *)
(* request r did, in order: "get" a cache lookup, "store" a backend query, *)
(* "live" a quote fetch, "set" a cache write.                              *)
(***************************************************************************)
MaxElapsed == 1      \* the wall clock advances MaxElapsed times by TickSeconds

\* str.upper on the symbols requested
Upper(x) == CASE x = "aapl" -> "AAPL" [] x = "msft" -> "MSFT" [] OTHER -> x

\* date.fromisoformat on the exp parameters requested: None for ValueError
FromIsoFormat(x) == CASE x = "2024-01-19" -> Some(1) [] x = "2024-02-16" -> Some(2) [] OTHER -> Null

\* date.isoformat
IsoFormat(d) == CASE d = 1 -> "2024-01-19" [] d = 2 -> "2024-02-16" [] OTHER -> "other"

\* _parse_window_to_days: max(1, int(...)) of '<n>d' or '<n>', 90 if invalid
ParseWindowToDays(w) ==
    CASE w = "1d" -> 1 [] w = "0" -> 1 [] w = "2d" -> 2 [] w = "120d" -> 120 [] OTHER -> 90
DaysLabel(days) ==
    CASE days = 1 -> "1d" [] days = 2 -> "2d" [] days = 120 -> "120d" [] OTHER -> "90d"

\* sorted(horizons)
SortedHorizons(hz) ==
    Recs(PySort([i \in 1..Len(hz) |-> [s |-> HorizonRank(hz[i]), r |-> hz[i]]], FALSE))

\* Variant: the key is built from the horizons in the order requested.
ForecastCacheKeyUnsorted(symbol, hz) == <<"em_forecast", symbol, hz>>

\* f"em_forecast:{symbol}:{':'.join(sorted(horizons))}"
ForecastCacheKey(symbol, hz) == <<"em_forecast", symbol, SortedHorizons(hz)>>

\* f"em:forecast:{sym}:{exp_date.isoformat()}"
EmForecastKey(symbol, exp_date) == <<"em:forecast", symbol, <<IsoFormat(exp_date)>>>>

\* f"em:history:{sym}:{exp_date.isoformat()}:{days}d"
EmHistoryKey(symbol, exp_date, days) ==
    <<"em:history", symbol, <<IsoFormat(exp_date), DaysLabel(days)>>>>

\* f"em:expiries:{sym}:{days}d"
EmExpiriesKey(symbol, days) == <<"em:expiries", symbol, <<DaysLabel(days)>>>>

\* redis_client.setex(key, ttl, ...)
Put(key, payload, ttl) ==
    [k \in DOMAIN cache \cup {key} |->
        IF k = key THEN [payload |-> payload, expire_at |-> wall + ttl] ELSE cache[k]]

\* redis_client.get(key): the payload, or None
Cached(key) == IF key \in DOMAIN cache THEN Some(cache[key].payload) ELSE Null

\* Requests are numbered by arrival.
Arrives(r) ==
    /\ request[r].pc = "idle"
    /\ \A o \in Handlers : o < r => request[o].pc # "idle"

\* The handler of a request that has its parameters and its cache key, about
\* to look the key up.
Asked(name, symbol, hz, include_live, exp, window, key) ==
    [endpoint |-> name, symbol |-> symbol, horizons |-> hz, include_live |-> include_live,
     exp |-> exp, window |-> window, pc |-> "get", key |-> key, payload |-> Null,
     ops |-> <<>>, fault |-> FALSE]

\* The handler after one more operation, which raised or not.
Did(q, what, failed) == [q EXCEPT !.ops = @ \o <<what>>, !.fault = failed]

\* The handler returned or raised: its locals are gone.
Ended(q) == [q EXCEPT !.pc = "done", !.payload = Null]

Replied(status, body) == [status |-> status, body |-> body]

get_expected_move(r, symbol, hz, include_live) ==
    /\ Arrives(r)
    /\ request' = [request EXCEPT ![r] =
            Asked("expected_move", symbol, hz, include_live, "", "",
                  ForecastCacheKey(Upper(symbol), hz))]
    /\ UNCHANGED <<cache, forecasts, wall, response, purge,
                   blendVars, bootVars, sinkVars, cacheVars, hybridVars>>

\* Variant: the cache is consulted with the raw exp before the date is parsed.
BadExpAfterLookup(r, name, symbol, exp, window) ==
    /\ Arrives(r)
    /\ FromIsoFormat(exp) = Null
    /\ request' = [request EXCEPT ![r] =
            Ended(Did(Asked(name, symbol, <<>>, FALSE, exp, window, <<name, Upper(symbol), <<exp>>>>),
                      "get", FALSE))]
    /\ response' = [response EXCEPT ![r] = Replied(400, Null)]
    /\ UNCHANGED <<cache, forecasts, wall, purge,
                   blendVars, bootVars, sinkVars, cacheVars, hybridVars>>

\* em_forecast and em_history on an exp that date.fromisoformat rejects
BadExp(r, name, symbol, exp, window) ==
    /\ Arrives(r)
    /\ FromIsoFormat(exp) = Null
    /\ request' = [request EXCEPT ![r] =
            Ended(Asked(name, symbol, <<>>, FALSE, exp, window, <<>>))]
    /\ response' = [response EXCEPT ![r] = Replied(400, Null)]
    /\ UNCHANGED <<cache, forecasts, wall, purge,
                   blendVars, bootVars, sinkVars, cacheVars, hybridVars>>

em_forecast(r, symbol, exp) ==
    /\ Arrives(r)
    /\ FromIsoFormat(exp) # Null
    /\ request' = [request EXCEPT ![r] =
            Asked("em_forecast", symbol, <<>>, FALSE, exp, "",
                  EmForecastKey(Upper(symbol), FromIsoFormat(exp)[1]))]
    /\ UNCHANGED <<cache, forecasts, wall, response, purge,
                   blendVars, bootVars, sinkVars, cacheVars, hybridVars>>

em_history(r, symbol, exp, window) ==
    /\ Arrives(r)
    /\ FromIsoFormat(exp) # Null
    /\ request' = [request EXCEPT ![r] =
            Asked("em_history", symbol, <<>>, FALSE, exp, window,
                  EmHistoryKey(Upper(symbol), FromIsoFormat(exp)[1], ParseWindowToDays(window)))]
    /\ UNCHANGED <<cache, forecasts, wall, response, purge,
                   blendVars, bootVars, sinkVars, cacheVars, hybridVars>>

\* em_expiries takes no exp: every request goes on to the cache lookup.
em_expiries(r, symbol, window) ==
    /\ Arrives(r)
    /\ request' = [request EXCEPT ![r] =
            Asked("em_expiries", symbol, <<>>, FALSE, "", window,
                  EmExpiriesKey(Upper(symbol), ParseWindowToDays(window)))]
    /\ UNCHANGED <<cache, forecasts, wall, response, purge,
                   blendVars, bootVars, sinkVars, cacheVars, hybridVars>>

\* cached = await redis_client.get(cache_key) inside try/except: an entry is
\* returned, by get_cached_forecast only when younger than 5 minutes; on
\* nothing usable the handler goes on to the backend.
RedisGet(r, fails) ==
    /\ request[r].pc = "get"
    /\ LET q == request[r]
           cached == IF fails THEN Null ELSE Cached(q.key)
           hit == /\ cached # Null
                  /\ q.endpoint = "expected_move" => IsFresh(wall, cached[1].timestamp)
       IN  IF hit
           THEN /\ request' = [request EXCEPT ![r] = Ended(Did(q, "get", FALSE))]
                /\ response' = [response EXCEPT ![r] = Replied(200, cached)]
           ELSE /\ request' = [request EXCEPT ![r] = [Did(q, "get", fails) EXCEPT !.pc = "store"]]
                /\ UNCHANGED response
    /\ UNCHANGED <<cache, forecasts, wall, purge,
                   blendVars, bootVars, sinkVars, cacheVars, hybridVars>>

\* What the backend returns to the handler, and the payload built from it.
BackendAnswer(q, ties) ==
    LET sym == Upper(q.symbol)
    IN  CASE q.endpoint = "expected_move" ->
                PgLatestForecasts(forecasts, sym, MapRange(q.horizons), ties)
          [] q.endpoint = "em_forecast" ->
                LatestForSymbolExp(forecasts, sym, FromIsoFormat(q.exp)[1])
          [] q.endpoint = "em_expiries" ->
                Expiries(forecasts, sym, ParseWindowToDays(q.window))
          [] OTHER ->
                HistoryForSymbolExp(forecasts, sym, FromIsoFormat(q.exp)[1],
                                    ParseWindowToDays(q.window))

Payload(q, found, live) ==
    LET sym == Upper(q.symbol)
    IN  CASE q.endpoint = "expected_move" ->
                [symbol |-> sym, timestamp |-> wall, forecasts |-> found,
                 live_data |-> live, horizons_requested |-> q.horizons,
                 has_live_data |-> live # Null]
          [] q.endpoint = "em_forecast" ->
                [symbol |-> sym, exp |-> FromIsoFormat(q.exp)[1], rec |-> found]
          [] q.endpoint = "em_expiries" ->
                [symbol |-> sym, expiries |-> found, count |-> Len(found)]
          [] OTHER ->
                [symbol |-> sym, exp |-> FromIsoFormat(q.exp)[1],
                 window |-> DaysLabel(ParseWindowToDays(q.window)), items |-> found]

\* if not forecasts / if not rec: raise HTTPException(404)
IsError(q, found) ==
    \/ q.endpoint = "expected_move" /\ found = <<>>
    \/ q.endpoint = "em_forecast" /\ found = None

\* Variant: the not-found outcome is cached like a found one.
MissOutcomeCached(r, found, fails) ==
    LET q == Did(request[r], "store", fails)
    IN  IF fails
        THEN /\ request' = [request EXCEPT ![r] = Ended(q)]
             /\ response' = [response EXCEPT ![r] = Replied(500, Null)]
             /\ UNCHANGED cache
        ELSE IF IsError(q, found)
        THEN /\ request' = [request EXCEPT ![r] = Ended(q)]
             /\ response' = [response EXCEPT ![r] = Replied(404, Null)]
             /\ cache' = Put(q.key, Payload(q, found, Null), Ttl(q.endpoint))
        ELSE /\ request' = [request EXCEPT ![r] =
                     [q EXCEPT !.pc = IF q.include_live THEN "live" ELSE "set",
                               !.payload = Some(Payload(q, found, Null))]]
             /\ UNCHANGED <<response, cache>>

\* The handler after its backend read: what the adapter raises is not caught
\* (500); nothing found raises 404 where that is an error; otherwise the
\* handler goes on with what was found, to the live quote when
\* include_live, or to the payload and the cache write.
MissOutcome(r, found, fails) ==
    LET q == Did(request[r], "store", fails)
    IN  IF fails
        THEN /\ request' = [request EXCEPT ![r] = Ended(q)]
             /\ response' = [response EXCEPT ![r] = Replied(500, Null)]
             /\ UNCHANGED cache
        ELSE IF IsError(q, found)
        THEN /\ request' = [request EXCEPT ![r] = Ended(q)]
             /\ response' = [response EXCEPT ![r] = Replied(404, Null)]
             /\ UNCHANGED cache
        ELSE /\ request' = [request EXCEPT ![r] =
                     [q EXCEPT !.pc = IF q.include_live THEN "live" ELSE "set",
                               !.payload = Some(Payload(q, found, Null))]]
             /\ UNCHANGED <<response, cache>>

\* await data_backend.get_latest_forecasts / get_latest_for_symbol_exp /
\* get_history_for_symbol_exp / get_expiries
BackendRead(r, fails, ties) ==
    /\ request[r].pc = "store"
    /\ MissOutcome(r, BackendAnswer(request[r], ties), fails)
    /\ UNCHANGED <<forecasts, wall, purge,
                   blendVars, bootVars, sinkVars, cacheVars, hybridVars>>

\* live_data = await em_service.get_live_market_data(symbol): a quote or
\* None; response_data is built after it, with datetime.now().
GetLiveMarketData(r, live) ==
    /\ request[r].pc = "live"
    /\ LET q == Did(request[r], "live", FALSE)
       IN  request' = [request EXCEPT ![r] =
               [q EXCEPT !.pc = "set",
                         !.payload = Some(Payload(q, q.payload[1].forecasts, live))]]
    /\ UNCHANGED <<cache, forecasts, wall, response, purge,
                   blendVars, bootVars, sinkVars, cacheVars, hybridVars>>

\* await redis_client.setex(cache_key, ttl, ...) inside try/except, then the
\* response.
RedisSetex(r, fails) ==
    /\ request[r].pc = "set"
    /\ LET q == request[r]
       IN  /\ cache' = IF fails THEN cache ELSE Put(q.key, q.payload[1], Ttl(q.endpoint))
           /\ request' = [request EXCEPT ![r] = Ended(Did(q, "set", fails))]
           /\ response' = [response EXCEPT ![r] = Replied(200, q.payload)]
    /\ UNCHANGED <<forecasts, wall, purge,
                   blendVars, bootVars, sinkVars, cacheVars, hybridVars>>

\* Time passes; redis drops the entries whose time to live is over.
Elapse ==
    /\ wall < MaxElapsed * TickSeconds
    /\ wall' = wall + TickSeconds
    /\ cache' = [k \in {x \in DOMAIN cache : cache[x].expire_at > wall + TickSeconds} |-> cache[k]]
    /\ UNCHANGED <<forecasts, request, response, purge,
                   blendVars, bootVars, sinkVars, cacheVars, hybridVars>>

HorizonLists == {<<"1d", "to_exp">>, <<"to_exp", "1d">>}
ExpParams == {"2024-01-19", "19/01/2024"}
\* The symbols of a pipeline run, and the store before the first run and
\* after one: main commits, for every symbol, its to_exp rows and the 1d and
\* the 5d row.
ServeRuns == {<<"MSFT">>, <<"AAPL", "MSFT">>}
RunRows(symbols) == compute_baseline_forecasts(symbols, Today, 1)
ForecastTables == {{}} \cup {insert_forecasts({}, RunRows(symbols)) : symbols \in ServeRuns}

\* A pipeline run commits the day's forecasts to the store.
PipelineRun(symbols) ==
    /\ forecasts = {}
    /\ forecasts' = insert_forecasts(forecasts, RunRows(symbols))
    /\ UNCHANGED <<cache, wall, request, response, purge,
                   blendVars, bootVars, sinkVars, cacheVars, hybridVars>>

\* refresh_task of /api/admin/refresh-forecasts:
\* keys = await redis_client.keys("em_forecast:*"); the keys em:forecast:...
\* and em:history:... do not match.  With no key, or on an error, the task ends.
RefreshTaskKeys(fails) ==
    /\ purge = Null
    /\ LET keys == {k \in DOMAIN cache : k[1] = "em_forecast"}
       IN  purge' = IF fails \/ keys = {} THEN Null ELSE Some(keys)
    /\ UNCHANGED <<cache, forecasts, wall, request, response,
                   blendVars, bootVars, sinkVars, cacheVars, hybridVars>>

\* await redis_client.delete(*keys): whatever the listed keys hold by now.
RefreshTaskDelete(fails) ==
    /\ purge # Null
    /\ purge' = Null
    /\ cache' = IF fails THEN cache ELSE [k \in DOMAIN cache \ purge[1] |-> cache[k]]
    /\ UNCHANGED <<forecasts, wall, request, response,
                   blendVars, bootVars, sinkVars, cacheVars, hybridVars>>

InitServe ==
    /\ NoSink /\ NoCache /\ NoHybrid /\ NoBlend /\ NoBoot
    /\ cache = <<>>
    /\ forecasts \in ForecastTables
    /\ wall = 0
    /\ request = [r \in Handlers |-> IdleHandler]
    /\ response = [r \in Handlers |-> NoResponse]
    /\ purge = Null

\* get_live_market_data gives a quote or None.
LiveData == {Null, Some("quote")}

NextServe ==
    \/ \E r \in Handlers, hz \in HorizonLists, include_live \in BOOLEAN :
          get_expected_move(r, "aapl", hz, include_live)
    \/ \E r \in Handlers, name \in {"em_forecast", "em_history"}, exp \in ExpParams :
          BadExp(r, name, "aapl", exp, IF name = "em_history" THEN "1d" ELSE "")
    \/ \E r \in Handlers, exp \in ExpParams : em_forecast(r, "aapl", exp)
    \/ \E r \in Handlers, exp \in ExpParams : em_history(r, "aapl", exp, "all")
    \/ \E r \in Handlers : em_expiries(r, "aapl", "120d")
    \/ \E r \in Handlers, fails \in BOOLEAN : RedisGet(r, fails)
    \/ \E r \in Handlers, fails \in BOOLEAN, ties \in TieOrders : BackendRead(r, fails, ties)
    \/ \E r \in Handlers, live \in LiveData : GetLiveMarketData(r, live)
    \/ \E r \in Handlers, fails \in BOOLEAN : RedisSetex(r, fails)
    \/ Elapse
    \/ \E symbols \in ServeRuns : PipelineRun(symbols)
    \/ \E fails \in BOOLEAN : RefreshTaskKeys(fails)
    \/ \E fails \in BOOLEAN : RefreshTaskDelete(fails)

SpecServe == InitServe /\ [][NextServe]_vars

(***************************************************************************)
(* The startup and shutdown of the API process: lifespan reads the         *)
(* environment, opens the stores the mode uses and selects data_backend.   *)
(* A handle is "None" until it is opened; data_backend keeps the handles   *)
(* its adapters were constructed with.                                     *)
(***************************************************************************)
\* str.lower on the values of DATA_BACKEND drawn
Lower(x) == CASE x = "Postgres" -> "postgres" [] x = "HYBRID" -> "hybrid" [] OTHER -> x

\* os.getenv(name, default) of an optional value
GetEnv(x, default) == IF x = Null THEN default ELSE x[1]

\* int(...) of the values of HYBRID_LAST_DAYS drawn: None for ValueError
ParseInt(x) == CASE x = "0" -> Some(0) [] x = "1" -> Some(1) [] x = "7" -> Some(7) [] OTHER -> Null

BackendValues ==
    {Null, Some("postgres"), Some("duckdb"), Some("hybrid"), Some("Postgres"), Some("HYBRID"),
     Some("sqlite"), Some("postgresql"), Some("")}
LastDaysValues == {Null, Some("0"), Some("7"), Some("x")}

\* DATA_BACKEND_MODE
BackendMode(env) == Lower(GetEnv(env.DATA_BACKEND, "postgres"))
UsePg(mode) == mode \in {"postgres", "hybrid"}
UseDuck(mode) == mode \in {"duckdb", "hybrid"}

\* The selection of data_backend at the end of the initialisation
SelectBackend(mode, pool, conn, last_days) ==
    IF mode = "postgres" THEN [kind |-> "postgres", pool |-> pool]
    ELSE IF mode = "duckdb" THEN [kind |-> "duckdb", conn |-> conn]
    ELSE [kind |-> "hybrid", conn |-> conn, pool |-> pool, last_days |-> Max(1, last_days)]

\* lifespan up to its yield.  fails names the store whose opening raises;
\* an exception, also the ValueError of int(HYBRID_LAST_DAYS), ends the
\* startup with data_backend still None.
Lifespan(fails) ==
    /\ lifecycle = "created"
    /\ LET mode == BackendMode(env_backend)
           pg_raises == UsePg(mode) /\ fails = "pg"
           duck_raises == UseDuck(mode) /\ fails = "duck"
           pool == IF UsePg(mode) /\ ~pg_raises THEN "pool" ELSE db_pool
           conn == IF UseDuck(mode) /\ ~pg_raises /\ ~duck_raises THEN "conn" ELSE duckdb_conn
           last_days == ParseInt(GetEnv(env_backend.HYBRID_LAST_DAYS, "1"))
           int_raises == mode \notin {"postgres", "duckdb"} /\ last_days = Null
       IN  /\ fails = "pg" => UsePg(mode)
           /\ fails = "duck" => UseDuck(mode)
           /\ db_pool' = pool
           /\ duckdb_conn' = conn
           /\ IF pg_raises \/ duck_raises \/ int_raises
              THEN lifecycle' = "startup_failed" /\ UNCHANGED data_backend
              ELSE /\ lifecycle' = "serving"
                   /\ data_backend' = SelectBackend(mode, pool, conn, last_days[1])
    /\ UNCHANGED <<env_backend, blendVars, serveVars, sinkVars, cacheVars, hybridVars>>

\* The adapters data_backend delegates to hold a handle that is not None.
HandlesOpen(b) ==
    /\ b.kind \in {"postgres", "hybrid"} => b.pool # "None"
    /\ b.kind \in {"duckdb", "hybrid"} => b.conn # "None"

\* A request handler calls data_backend.get_symbols: the adapter uses its
\* handle, and a None handle raises AttributeError.
BackendRequest ==
    /\ lifecycle = "serving"
    /\ call = NoCall
    /\ call' = [op |-> "get_symbols"]
    /\ result' = [status |-> IF HandlesOpen(data_backend) THEN "ok" ELSE "AttributeError"]
    /\ UNCHANGED <<duck_store, pg_store, writes, bootVars, blendVars, serveVars, sinkVars, cacheVars>>

\* lifespan after its yield: the handles the mode uses are closed.
Shutdown ==
    /\ lifecycle = "serving"
    /\ lifecycle' = "shutdown"
    /\ LET mode == BackendMode(env_backend)
       IN  /\ db_pool' = IF UsePg(mode) /\ db_pool # "None" THEN "closed" ELSE db_pool
           /\ duckdb_conn' = IF UseDuck(mode) /\ duckdb_conn # "None" THEN "closed"
                             ELSE duckdb_conn
    /\ UNCHANGED <<env_backend, data_backend, blendVars, serveVars, sinkVars, cacheVars,
                   hybridVars>>

InitBoot ==
    /\ NoSink /\ NoCache /\ NoHybrid /\ NoBlend /\ NoServe
    /\ env_backend \in [DATA_BACKEND : BackendValues, HYBRID_LAST_DAYS : LastDaysValues]
    /\ db_pool = "None"
    /\ duckdb_conn = "None"
    /\ data_backend = [kind |-> "none"]
    /\ lifecycle = "created"

NextBoot ==
    \/ \E fails \in {"none", "pg", "duck"} : Lifespan(fails)
    \/ BackendRequest
    \/ Shutdown

SpecBoot == InitBoot /\ [][NextBoot]_vars

(***************************************************************************)
(* Claims about the sinks called directly.                                 *)
(***************************************************************************)
KeysOf(rs) == {KeyOf(rs[i]) : i \in 1..Len(rs)}

\* The record of batch rs that a last-write-wins sink keeps for key k.
LastFor(rs, k) ==
    rs[CHOOSE i \in 1..Len(rs) :
          /\ KeyOf(rs[i]) = k
          /\ \A j \in (i + 1)..Len(rs) : KeyOf(rs[j]) # k]

CountKey(t, k) == Cardinality({i \in 1..Len(t) : KeyOf(t[i]) = k})

UniqueKeys(t) == \A i, j \in 1..Len(t) : KeyOf(t[i]) = KeyOf(t[j]) => i = j

RECURSIVE Without(_, _)
Without(t, ks) ==
    IF t = <<>> THEN <<>>
    ELSE (IF KeyOf(Head(t)) \in ks THEN <<>> ELSE <<Head(t)>>) \o Without(Tail(t), ks)

\* C1: columnar dedup law.  When a call of upsert_parquet_forecasts has ended
\* and its batch held a key K that the dataset already held with another
\* payload, the dataset holds exactly one record for K and that record has
\* the forecast fields of the batch.
C1_ColumnarDedupLaw ==
    \A w \in Procs :
        (op[w] = "upsert" /\ pc[w] = "idle" /\ IsTable(df_old[w])) =>
            \A k \in KeysOf(df_old[w].table) \cap KeysOf(rows[w]) :
                (\E i \in 1..Len(df_old[w].table) :
                    /\ KeyOf(df_old[w].table[i]) = k
                    /\ Fields(df_old[w].table[i]) # Fields(LastFor(rows[w], k)))
                =>  /\ IsTable(parquet)
                    /\ CountKey(parquet.table, k) = 1
                    /\ \A i \in 1..Len(parquet.table) :
                          KeyOf(parquet.table[i]) = k =>
                              Fields(parquet.table[i]) = Fields(LastFor(rows[w], k))

\* C2: key uniqueness.  Each store holds at most one record per identity key,
\* whatever the sequence of sink writes and whatever the batches.
C2_KeyUniqueness ==
    /\ \A x, y \in pg : KeyOf(x) = KeyOf(y) => x = y
    /\ IsTable(parquet) => UniqueKeys(parquet.table)

\* C3: frame condition of a sink write.  When a sink call has ended, the store
\* holds for every key of the batch a record with the batch's forecast fields
\* and only such records, and for the other keys exactly what it held before.
C3_SinkFrame ==
    \A w \in Procs :
        /\ (op[w] = "insert" /\ pc[w] = "idle") =>
              /\ \A k \in KeysOf(rows[w]) :
                    /\ \E x \in pg : KeyOf(x) = k
                    /\ \A x \in pg : KeyOf(x) = k => Fields(x) = Fields(LastFor(rows[w], k))
              /\ {x \in pg : KeyOf(x) \notin KeysOf(rows[w])}
                    = {x \in pg_old[w] : KeyOf(x) \notin KeysOf(rows[w])}
        /\ (op[w] = "upsert" /\ pc[w] = "idle") =>
              /\ IsTable(parquet)
              /\ \A k \in KeysOf(rows[w]) :
                    /\ CountKey(parquet.table, k) >= 1
                    /\ \A i \in 1..Len(parquet.table) :
                          KeyOf(parquet.table[i]) = k =>
                              Fields(parquet.table[i]) = Fields(LastFor(rows[w], k))
              /\ Without(parquet.table, KeysOf(rows[w]))
                    = Without(read_parquet(df_old[w]), KeysOf(rows[w]))

\* C10: atomic replace.  A reader that reads the dataset file while
\* upsert_parquet_forecasts is replacing it never finds it half written.
C10_AtomicReplace == observed.during => observed.kind # "unreadable"

\* C11: when the prior dataset file is absent, or present but unreadable, the
\* upsert treats it as empty: it completes without error and leaves a
\* readable dataset that consists exactly of the records of the batch, the
\* record a dataset holds for a key of the batch being the batch's last one
\* for it.
C11_PriorNeverFatal ==
    \A w \in Procs :
        (op[w] = "upsert" /\ ~IsTable(df_old[w])) =>
            /\ outcome[w] # "TypeError"
            /\ pc[w] = "idle" =>
                 /\ outcome[w] = "ok"
                 /\ IsTable(parquet)
                 /\ Range(parquet.table) \subseteq Range(rows[w])
                 /\ \A k \in KeysOf(rows[w]) : LastFor(rows[w], k) \in Range(parquet.table)
                 /\ Len(parquet.table) = Cardinality(KeysOf(rows[w]))

(***************************************************************************)
(* Claims about pipeline runs.                                             *)
(***************************************************************************)
Records(rs) == {<<KeyOf(r), Fields(r)>> : r \in rs}

\* C4: no divergence.  Whenever no pipeline run is in progress, the row store
\* and the columnar store hold the same keys with the same forecast fields.
C4_NoDivergence ==
    (\A w \in Procs : pc[w] = "idle") =>
        /\ parquet.state # "unreadable"
        /\ Records(pg) = Records(Range(read_parquet(parquet)))

\* Both processes ended an upsert that had read the same prior dataset, with
\* disjoint batches, and their writes did not overlap in time.
RacedPair(a, b) ==
    /\ a # b
    /\ pc[a] = "idle" /\ pc[b] = "idle"
    /\ outcome[a] = "ok" /\ outcome[b] = "ok"
    /\ df_old[a] = df_old[b]
    /\ KeysOf(rows[a]) \cap KeysOf(rows[b]) = {}
    /\ ~overlapped[a] /\ ~overlapped[b]

\* C9: lost update.  Nothing stops a second upsert_parquet_forecasts from
\* reading the dataset while a first one is between its read and its write;
\* and when two upserts with disjoint batches have read the same prior
\* dataset and both have written, the dataset holds the whole batch of one
\* of them and no record of the other.
C9_LostUpdate ==
    /\ \A a, b \in Procs :
          (a # b /\ pc[a] = "write" /\ pc[b] = "upsert") => ENABLED MainUpsert(b)
    /\ \A a, b \in Procs :
          RacedPair(a, b) =>
              /\ IsTable(parquet)
              /\ \E w \in {a, b} :
                    /\ KeysOf(rows[w]) \subseteq KeysOf(parquet.table)
                    /\ \A o \in {a, b} \ {w} : KeysOf(rows[o]) \cap KeysOf(parquet.table) = {}

\* Two runs raced on the dataset: the row store holds both batches, the
\* dataset holds only the second writer's.
C9_Witness ==
    \E a, b \in Procs :
        /\ RacedPair(a, b)
        /\ parquet = TableFile(df_all[b])
        /\ KeysOf(rows[a]) # {}
        /\ KeysOf(rows[a]) \cap KeysOf(parquet.table) = {}
        /\ KeysOf(rows[a]) \subseteq {KeyOf(x) : x \in pg}

(***************************************************************************)
(* Claims about the cached read endpoints                                  *)
(***************************************************************************)
\* The freshness threshold of an endpoint, in seconds.
Threshold(ep) == IF ep = "expected_move" THEN FreshMinutes * 60 ELSE TtlEm

\* The step in which request r performs its cache lookup.
Looks(r) == req[r].pc = "idle" /\ req'[r].pc # "idle"

\* Request r is answered with the entry the cache holds, nothing else done.
ServedFromCache(r) ==
    /\ req'[r].pc = "done"
    /\ req'[r].status = "200"
    /\ req'[r].val = redis.val
    /\ req'[r].timestamp = redis.timestamp
    /\ req'[r].n_duck = 0 /\ req'[r].n_pg = 0 /\ req'[r].n_set = 0

\* Request r goes on to read the backend.
Rereads(r) == req'[r].pc \in {"read_duck", "read_pg"}

\* C5 as stated: an entry written to the cache at t0 is returned unchanged to
\* every request at t in [t0, t0 + T), and a request at t >= t0 + T re-reads
\* the backend instead.
C5_FreshnessLaw ==
    [][\A r \in Requests : (Looks(r) /\ redis.present) =>
          LET t0 == redis.expire_at - Ttl(endpoint)
          IN  /\ (t0 <= now /\ now < t0 + Threshold(endpoint)) => ServedFromCache(r)
              /\ now >= t0 + Threshold(endpoint) => Rereads(r)]_vars

\* C5 amended: a request whose cache lookup succeeds and finds an entry is
\* answered with that entry unchanged, without a backend read, exactly when
\* t < t0 + T, and re-reads the backend otherwise; t0 is the timestamp embedded
\* in the payload for /api/expected-move and the instant of the cache write
\* for the /em endpoints, whose entries Redis holds for T and no longer.  A
\* lookup that fails or finds nothing re-reads the backend.
C5_FreshnessByOrigin ==
    [][\A r \in Requests : Looks(r) =>
          LET t0 == IF endpoint = "expected_move" THEN redis.timestamp
                    ELSE redis.expire_at - TtlEm
              within == redis.present /\ now < t0 + Threshold(endpoint)
          IN  /\ redis.present => (t0 <= now /\ now < redis.expire_at)
              /\ (req'[r].got # "failed" /\ within) => ServedFromCache(r)
              /\ (req'[r].got = "failed" \/ ~within) => Rereads(r)]_vars

\* A request was answered from an entry written earlier although the stores
\* had moved on, and the other request built that entry.
C5_Witness ==
    \E r, w \in Requests :
        /\ r # w
        /\ req[r].pc = "done" /\ req[r].got = "hit" /\ req[r].outdated
        /\ req[w].pc = "done" /\ req[w].n_set = 1 /\ ~req[w].set_failed
        /\ req[r].val = req[w].val /\ req[r].timestamp = req[w].timestamp
        /\ req[r].val < StoreLatest(backend)

NDuck(mode) == IF mode = "postgres" THEN 0 ELSE 1
NPg(mode) == IF mode = "duckdb" THEN 0 ELSE 1

EndsAsMiss(q) ==
    /\ q.n_duck = NDuck(backend)
    /\ q.n_pg = IF q.err = "duck" THEN 0 ELSE NPg(backend)
    /\ q.status \in {"200", "404", "500"}
    /\ q.status = "500" <=> q.err # "none"
    /\ q.status = "404" <=> (Raises404(endpoint) /\ q.val = 0 /\ q.err = "none")
    /\ q.status = "200" <=> q.n_set = 1

\* C7: a request whose cache get failed proceeds as on a miss (it reads the
\* backend and ends as a request that found no entry ends: 200, 404, or the
\* error the backend raised), a request whose cache set failed still answers
\* 200 with the value it read, and no request ends in an error caused by
\* the cache: a 500 is the error of a store query or of the merge.
C7_CacheFailuresInvisible ==
    \A r \in Requests :
        LET q == req[r]
        IN  /\ q.status = "500" => (q.err # "none" /\ q.n_set = 0 /\ ~q.set_failed)
            /\ (q.got \in {"failed", "absent", "stale"} /\ q.pc = "done") => EndsAsMiss(q)
            /\ (q.got = "failed" /\ q.pc # "done") =>
                    q.pc \in {"read_duck", "read_pg", "build", "set"}
            /\ q.set_failed =>
                    /\ q.pc = "done" /\ q.status = "200" /\ q.err = "none"
                    /\ Raises404(endpoint) => q.val > 0

\* A request whose cache get and cache set both failed answered 200 with a
\* record of the stores, while the cache stayed empty.
C7_Witness ==
    \E r \in Requests :
        /\ req[r].pc = "done" /\ req[r].got = "failed" /\ req[r].set_failed
        /\ req[r].status = "200" /\ req[r].val > 0
        /\ ~redis.present

\* Both requests missed, read the stores and wrote the cache.
BothWrote ==
    \A r \in Requests :
        /\ req[r].pc = "done" /\ req[r].got # "hit"
        /\ req[r].n_set = 1 /\ ~req[r].set_failed

\* C8 as stated: after two requests both missed and both wrote the cache, the
\* entry left is the payload with the greater embedded generation timestamp.
C8_NewestTimestampWins ==
    (endpoint = "expected_move" /\ BothWrote /\ redis.present) =>
        \A r \in Requests : redis.timestamp >= req[r].timestamp

\* C8 amended: every cache write that succeeds replaces the entry with the
\* writer's payload whatever timestamp the entry held, so the entry left after
\* both requests is the payload of the later write.
C8_LastWriteWins ==
    [][\A r \in Requests :
          (req[r].pc = "set" /\ req'[r].pc = "done" /\ ~req'[r].set_failed) =>
              /\ redis'.present
              /\ redis'.val = req[r].val
              /\ redis'.timestamp = req[r].timestamp
              /\ redis'.expire_at = now + Ttl(endpoint)]_vars

\* Both requests wrote and the entry left carries the smaller of their two
\* generation timestamps.
C8_Witness ==
    /\ endpoint = "expected_move"
    /\ BothWrote
    /\ redis.present
    /\ \E r, w \in Requests :
        /\ redis.timestamp = req[r].timestamp /\ redis.val = req[r].val
        /\ req[r].timestamp < req[w].timestamp

(***************************************************************************)
(* Claims about failing pipeline runs                                      *)
(***************************************************************************)
Finished(w) == op[w] = "main" /\ pc[w] = "idle" /\ outcome[w] # "none"

\* The sinks that hold the rows of the last run of w.
SinksWritten(w) ==
    {x \in {"row"} : rows[w] # <<>> /\ Range(rows[w]) \subseteq pg}
    \cup {x \in {"columnar"} : rows[w] # <<>> /\ IsTable(parquet)
                                  /\ Range(rows[w]) \subseteq Range(parquet.table)}

\* C12: the result of a run tells which sinks it wrote: two finished runs with
\* the same result wrote the same sinks, so a run that wrote one sink only is
\* told apart from a run that wrote both and from a run that wrote none.
C12_PartialFailureDistinct ==
    \A a, b \in Procs :
        (Finished(a) /\ Finished(b) /\ ExitStatus(outcome[a]) = ExitStatus(outcome[b]))
            => SinksWritten(a) = SinksWritten(b)

\* C13: a run whose upsert_parquet_forecasts failed after insert_forecasts
\* committed leaves the row store holding every row of its batch, fields
\* included, and nothing takes them out afterwards.
C13_NoCrossSinkRollback ==
    \A w \in Procs :
        (op[w] = "main" /\ pc[w] = "idle" /\ outcome[w] = "TypeError") =>
            /\ rows[w] # <<>>
            /\ Range(rows[w]) \subseteq pg
            /\ \A k \in KeysOf(rows[w]) : Cardinality({x \in pg : KeyOf(x) = k}) = 1

\* A run failed in the upsert: the row store holds its whole batch, the
\* dataset file none of it.
C13_Witness ==
    \E w \in Procs :
        /\ op[w] = "main" /\ pc[w] = "idle" /\ outcome[w] = "TypeError"
        /\ Len(rows[w]) >= 2
        /\ Range(rows[w]) \subseteq pg
        /\ IsTable(parquet)
        /\ Range(rows[w]) \cap Range(parquet.table) = {}


(***************************************************************************)
(* Claims about the backend operations (SpecHybrid).                       *)
(***************************************************************************)
Merged(name) == call.op = name /\ call.mode = "hybrid" /\ result.status = "ok"

\* Both adapters answered the hybrid call, which returned or raised.
Answered ==
    call.op # "none" /\ call.mode = "hybrid" /\ result.status \in {"ok", "TypeError"}

\* No pipeline write fell between the start of the call and its return: both
\* adapters answered from the stores as they are.
Unraced == call.writes = writes

\* The two adapters' answers to the hybrid call.
DuckAnswer == result.duck
PgAnswer == result.pg

DuckLatest == LatestForSymbolExp(duck_store, call.symbol, call.exp_date)
PgLatest == LatestForSymbolExp(pg_store, call.symbol, call.exp_date)

\* C14: the hybrid get_latest_for_symbol_exp, once both adapters have
\* answered, returns, whole, the record of the store whose latest record has
\* the greater quote_ts, DuckDB's when the two are equal; the one record
\* there is when only one store has one; and nothing when neither has.  The
\* stores' latest records are the ones the adapters answered with, which
\* are those of the stores when no write fell into the call.
C14_LatestOfTwoStores ==
    (call.op = "get_latest_for_symbol_exp" /\ Answered) =>
        /\ result.status = "ok"
        /\ Unraced => (DuckAnswer = DuckLatest /\ PgAnswer = PgLatest)
        /\ (DuckAnswer = None /\ PgAnswer = None) => result.data = None
        /\ (DuckAnswer # None /\ PgAnswer = None) => result.data = DuckAnswer
        /\ (DuckAnswer = None /\ PgAnswer # None) => result.data = PgAnswer
        /\ (DuckAnswer # None /\ PgAnswer # None) =>
              result.data = IF PgAnswer.quote_ts > DuckAnswer.quote_ts
                            THEN PgAnswer ELSE DuckAnswer

ListOps == {"get_latest_forecasts", "get_history_for_symbol_exp", "get_symbol_history_all_horizons"}
AnsweredList == call.op \in ListOps /\ Answered

DedupKey(r) ==
    CASE call.op = "get_latest_forecasts" -> <<r.quote_ts, r.exp_date, r.horizon>>
      [] call.op = "get_history_for_symbol_exp" -> <<r.quote_ts>>
      [] call.op = "get_symbol_history_all_horizons" -> <<r.quote_ts, r.horizon>>

KeySet(s) == {DedupKey(s[i]) : i \in 1..Len(s)}
Under(k, s) == {i \in 1..Len(s) : DedupKey(s[i]) = k}
FirstUnder(k, s) == s[CHOOSE i \in Under(k, s) : \A j \in Under(k, s) : i <= j]

OnePerSharedKey(d, p, out) ==
    \A k \in KeySet(d) \cap KeySet(p) :
        /\ Cardinality(Under(k, out)) = 1
        /\ \A i \in Under(k, out) :
              /\ out[i].quote_ts >= FirstUnder(k, d).quote_ts
              /\ out[i].quote_ts >= FirstUnder(k, p).quote_ts

\* C15: when both stores return a record under one dedup key, the hybrid
\* list operation returns a merged list that has exactly one record under
\* that key, one whose quote_ts is not below the other's.
C15_OnePerSharedKey ==
    (AnsweredList /\ KeySet(DuckAnswer) \cap KeySet(PgAnswer) # {}) =>
        /\ result.status = "ok"
        /\ OnePerSharedKey(DuckAnswer, PgAnswer, result.data)

\* What the adapter of one store alone answers to the call.  The claims
\* compare the answers as sets, which the order of tied rows does not change.
DuckAlone ==
    CASE call.op = "get_latest_forecasts" ->
            DuckLatestForecasts(duck_store, call.symbol, call.horizons, "asc")
      [] call.op = "get_latest_for_symbol_exp" -> <<DuckLatest>>
      [] call.op = "get_history_for_symbol_exp" ->
            HistoryForSymbolExp(duck_store, call.symbol, call.exp_date, Max(1, call.days))
      [] call.op = "get_expiries" -> Expiries(duck_store, call.symbol, Max(1, call.days))
      [] call.op = "get_symbols" -> SymbolCounts(duck_store, Max(1, call.days))
      [] call.op = "get_symbol_history_all_horizons" ->
            SymbolHistoryAllHorizons(duck_store, call.symbol, Max(1, call.days), "asc")

PgAlone ==
    CASE call.op = "get_latest_forecasts" ->
            PgLatestForecasts(pg_store, call.symbol, call.horizons, "asc")
      [] call.op = "get_latest_for_symbol_exp" -> <<PgLatest>>
      [] call.op = "get_history_for_symbol_exp" ->
            HistoryForSymbolExp(pg_store, call.symbol, call.exp_date, call.days)
      [] call.op = "get_expiries" -> Expiries(pg_store, call.symbol, call.days)
      [] call.op = "get_symbols" -> SymbolCounts(pg_store, call.days)
      [] call.op = "get_symbol_history_all_horizons" ->
            SymbolHistoryAllHorizons(pg_store, call.symbol, call.days, "asc")

Returned == IF call.op = "get_latest_for_symbol_exp" THEN <<result.data>> ELSE result.data

SameData == Answered /\ pg_store = duck_store /\ Unraced

SameRecords(out, d, p) == MapRange(out) = MapRange(d) /\ MapRange(out) = MapRange(p)

\* C16: with the same data in both stores, each of the six hybrid
\* operations returns the set of records that the adapter of one store
\* alone returns.
C16_MergeIdempotent ==
    SameData => (result.status = "ok" /\ SameRecords(Returned, DuckAlone, PgAlone))

CountIn(s, sym) ==
    IF \E i \in 1..Len(s) : s[i].symbol = sym
    THEN (CHOOSE r \in MapRange(s) : r.symbol = sym).forecast_count
    ELSE 0

CountAggregation(ds, ps, out) ==
    /\ {out[i].symbol : i \in 1..Len(out)} = {r.symbol : r \in MapRange(ds) \cup MapRange(ps)}
    /\ \A i, j \in 1..Len(out) : out[i].symbol = out[j].symbol => i = j
    /\ \A i \in 1..Len(out) :
          out[i].forecast_count = CountIn(ds, out[i].symbol) + CountIn(ps, out[i].symbol)
    /\ \A i, j \in 1..Len(out) :
          i < j => \/ out[i].forecast_count > out[j].forecast_count
                   \/ /\ out[i].forecast_count = out[j].forecast_count
                      /\ SymRank(out[i].symbol) < SymRank(out[j].symbol)

\* C17: the hybrid get_symbols lists every instrument that either store
\* returns once, with the sum of its two counts, by summed count descending
\* and, among equal counts, by instrument ascending.
C17_CountAggregation ==
    Merged("get_symbols") => CountAggregation(DuckAnswer, PgAnswer, result.data)

EarliestOfUnion(ds, ps, out) ==
    LET union == MapRange(ds) \cup MapRange(ps)
    IN  /\ MapRange(out) \subseteq union
        /\ \A i, j \in 1..Len(out) : i < j => out[i] < out[j]
        /\ Len(out) = Min(ExpiriesLimit, Cardinality(union))
        /\ \A e \in union \ MapRange(out) : \A i \in 1..Len(out) : out[i] < e

\* C18: the hybrid get_expiries, once both adapters have answered, returns
\* dates of the union of the two stores' answers, each once and in strictly
\* ascending order: all of them, or the 50 earliest when there are more.
C18_UnionOfExpiries ==
    (call.op = "get_expiries" /\ Answered) =>
        /\ result.status = "ok"
        /\ EarliestOfUnion(DuckAnswer, PgAnswer, result.data)

WindowOps == {"get_history_for_symbol_exp", "get_symbol_history_all_horizons", "get_symbols"}

\* C19: in hybrid mode every operation with a look-back window asks
\* Postgres for min(requested window, last_days) and DuckDB for the
\* requested window.
C19_ClampedWindow ==
    (call.op \in WindowOps /\ call.mode = "hybrid" /\ result.status = "ok") =>
        /\ result.pg_window = Min(call.days, LastDays(call.last_days))
        /\ result.duck_window = call.days

\* C20: a hybrid operation during which exactly one adapter fails still
\* returns what the other adapter answers; an operation fails only on the
\* failure of the one adapter of a single-store backend, or of both.
C20_OneFailureTolerated ==
    (call.op # "none" /\ result.status # "pending") =>
        /\ (call.mode = "hybrid" /\ call.fails = "duck") =>
              (result.status = "ok" /\ MapRange(Returned) = MapRange(PgAlone))
        /\ (call.mode = "hybrid" /\ call.fails = "pg") =>
              (result.status = "ok" /\ MapRange(Returned) = MapRange(DuckAlone))
        /\ result.status = "error" => (call.mode # "hybrid" /\ call.fails # "none")

(***************************************************************************)
(* Claims about the pure steps of the pipeline (SpecBlend).                *)
(***************************************************************************)
Predicted(r, name) ==
    IF KeyOf(r) \in DOMAIN preds THEN Get(preds[KeyOf(r)], name) ELSE Null

BlenderFrame(before, after) ==
    /\ Len(after) = Len(before)
    /\ \A i \in 1..Len(before) :
          /\ KeyOf(after[i]) = KeyOf(before[i])
          /\ after[i].em_baseline = before[i].em_baseline
          /\ \A name \in BandNames :
                after[i][name] = IF Predicted(before[i], name) # Null
                                 THEN Predicted(before[i], name)[1]
                                 ELSE before[i][name]
          /\ KeyOf(before[i]) \notin DOMAIN preds => after[i] = before[i]

\* C21: merge_predictions_into_rows returns one record per input record in
\* the same order, with the identity key and em_baseline unchanged; a band
\* takes the value the mapping has for the record's key and that band when
\* that value is not None, and keeps its own otherwise; a record whose key
\* the mapping lacks is returned unchanged.
C21_BlenderFrame ==
    step \in {"merged", "merged_twice"} => BlenderFrame(baseline, blended)

\* A batch in which one record took a predicted band and kept another band,
\* and one record has no entry in the non-empty mapping.
C21_Witness ==
    /\ step = "merged"
    /\ \E i \in 1..Len(baseline) :
          /\ blended[i].band68_low # baseline[i].band68_low
          /\ Predicted(baseline[i], "band95_low") = Null
          /\ blended[i].band95_low = baseline[i].band95_low
    /\ \E i \in 1..Len(baseline) : KeyOf(baseline[i]) \notin DOMAIN preds

\* C22: merging the same mapping into the merged batch again changes
\* nothing, and the merged batch is a function of the batch and the mapping.
C22_BlenderIdempotent ==
    /\ step = "merged_twice" => reblended = blended
    /\ step \in {"merged", "merged_twice"} =>
          blended = merge_predictions_into_rows(baseline, preds)

\* The first merge changed the batch and the second returned it as it was.
C22_Witness ==
    /\ step = "merged_twice"
    /\ blended # baseline
    /\ reblended = blended

NonNegativeIv == iv = Null \/ iv[1] >= 0

BaselineBands(r) ==
    /\ r.em_baseline >= 0
    /\ r.band95_low <= r.band68_low /\ r.band68_low <= r.em_baseline
    /\ r.em_baseline <= r.band68_high /\ r.band68_high <= r.band95_high
    /\ 2 * r.band95_low = r.em_baseline /\ 4 * r.band68_low = 3 * r.em_baseline
    /\ 4 * r.band68_high = 5 * r.em_baseline /\ 2 * r.band95_high = 3 * r.em_baseline

OneDay(r) == r.em_baseline = 4 * EmLevel(IvOr(iv), 1)

\* C23: for a volatility iv >= 0 every record of compute_baseline_forecasts
\* has em_baseline >= 0, its bands 0.50, 0.75, 1.25 and 1.50 times
\* em_baseline and hence nested around it, and the to_exp record of an
\* expiration on or before today is computed with one day.
C23_BaselineBands ==
    (step # "start" /\ step # "none" /\ NonNegativeIv) =>
        \A i \in 1..Len(baseline) :
            /\ BaselineBands(baseline[i])
            /\ (baseline[i].horizon = "to_exp" /\ baseline[i].exp_date <= TodayDate)
                  => OneDay(baseline[i])

\* A batch computed from a positive volatility with an expiration before
\* today, whose to_exp record has bands strictly nested around a positive em.
C23_Witness ==
    /\ step = "computed"
    /\ iv # Null /\ iv[1] > 0
    /\ \E i \in 1..Len(baseline) :
          /\ baseline[i].horizon = "to_exp" /\ baseline[i].exp_date < TodayDate
          /\ 0 < baseline[i].band95_low /\ baseline[i].band95_low < baseline[i].band68_low
          /\ baseline[i].band68_low < baseline[i].em_baseline
          /\ baseline[i].em_baseline < baseline[i].band68_high
          /\ baseline[i].band68_high < baseline[i].band95_high

Nested(r) ==
    /\ r.band95_low <= r.band68_low /\ r.band68_low <= r.em_baseline
    /\ r.em_baseline <= r.band68_high /\ r.band68_high <= r.band95_high

\* C24: every record of the batch that main hands to the sinks, the
\* baseline batch merged with the predictions, has its bands nested around
\* em_baseline.
C24_NestedAtSinks ==
    (step \in {"merged", "merged_twice"} /\ NonNegativeIv) =>
        \A i \in 1..Len(blended) : Nested(blended[i])

(***************************************************************************)
(* Claims about the request handlers (SpecServe).                          *)
(***************************************************************************)
\* The step is request r's arrival, or the operation `what` of its handler.
Arrival(r) == request[r].pc = "idle" /\ request'[r].pc # "idle"
Does(r, what) == request'[r].ops = request[r].ops \o <<what>>

\* C25: a request to /em/forecast or /em/history whose exp is not a valid
\* ISO date is answered 400 on arrival, without any cache lookup, any store
\* query and any cache write.
C25_InputErrorsRejected ==
    [][\A r \in Handlers :
          (/\ Arrival(r)
           /\ request'[r].endpoint \in {"em_forecast", "em_history"}
           /\ FromIsoFormat(request'[r].exp) = Null)
          => (/\ response'[r].status = 400
              /\ request'[r].pc = "done"
              /\ request'[r].ops = <<>>
              /\ cache' = cache)]_vars

C25_Witness ==
    \E r \in Handlers :
        /\ request[r].endpoint = "em_history"
        /\ response[r].status = 400
        /\ cache # <<>>

\* The store holds no record for the request.
NoRecordFor(q) ==
    CASE q.endpoint = "expected_move" ->
             {x \in forecasts : /\ x.underlying = Upper(q.symbol)
                                /\ x.horizon \in MapRange(q.horizons)
                                /\ x.quote_ts >= Today - 1} = {}
      [] q.endpoint = "em_forecast" ->
             {x \in forecasts : /\ x.underlying = Upper(q.symbol)
                                /\ Some(x.exp_date) = FromIsoFormat(q.exp)
                                /\ x.horizon = "to_exp"} = {}
      [] OTHER -> FALSE

\* The entry records data that was found.
HoldsData(key, entry) ==
    CASE key[1] = "em_forecast" -> entry.payload.forecasts # <<>>
      [] key[1] = "em:forecast" -> entry.payload.rec # None
      [] OTHER -> TRUE

\* C26: when the store read of /api/expected-move or /em/forecast succeeds
\* and finds no record, the handler ends there with 404, which is not the
\* answer to a failed store read (500), and leaves the cache as it was; no
\* cache entry ever records a not-found outcome, so that a later request
\* for the key is not answered from one.
C26_DataAbsent ==
    [][/\ \A r \in Handlers :
             Does(r, "store") =>
                /\ (~request'[r].fault /\ NoRecordFor(request[r]))
                      => (/\ response'[r].status = 404
                          /\ request'[r].pc = "done"
                          /\ cache' = cache)
                /\ request'[r].fault
                      => (response'[r].status = 500 /\ request'[r].pc = "done")
       /\ \A k \in DOMAIN cache' : HoldsData(k, cache'[k])]_vars

\* Two requests to /em/forecast for one key were both answered 404, each
\* after its own store read.
C26_Witness ==
    /\ \A r \in {1, 2} :
          /\ request[r].endpoint = "em_forecast"
          /\ response[r].status = 404
          /\ request[r].ops = <<"get", "store">>
    /\ request[1].key = request[2].key
    /\ cache = <<>>

\* C27: a request to /api/expected-move whose cache lookup finds a fresh
\* entry under the key made of the upper-cased symbol and the sorted
\* horizons is answered with that entry as it is, whatever its include_live
\* and whatever the order of its horizons.
C27_KeyIgnoresIncludeLive ==
    [][\A r \in Handlers :
          (/\ request[r].endpoint = "expected_move"
           /\ Does(r, "get")
           /\ ~request'[r].fault)
          => LET key == <<"em_forecast", Upper(request[r].symbol),
                          SortedHorizons(request[r].horizons)>>
             IN  (key \in DOMAIN cache /\ IsFresh(wall, cache[key].payload.timestamp))
                    => /\ response'[r].status = 200
                       /\ response'[r].body = Some(cache[key].payload)
                       /\ request'[r].ops = <<"get">>
                       /\ request'[r].pc = "done"
                       /\ cache' = cache]_vars

C27_Witness ==
    \E r \in Handlers :
        /\ request[r].endpoint = "expected_move"
        /\ request[r].include_live
        /\ request[r].ops = <<"get">>
        /\ response[r].status = 200
        /\ response[r].body[1].live_data = Null
        /\ ~response[r].body[1].has_live_data
        /\ response[r].body[1].horizons_requested # request[r].horizons

(***************************************************************************)
(* Claims about the startup (SpecBoot).                                    *)
(***************************************************************************)
\* C28: once the startup has completed, the pool exists exactly when the mode
\* is postgres or hybrid, the connection exactly when it is duckdb or hybrid,
\* and the selected data_backend only delegates to opened stores, whatever
\* the value of DATA_BACKEND.
C28_SelectedStoresInitialised ==
    lifecycle = "serving" =>
        /\ db_pool # "None" <=> UsePg(BackendMode(env_backend))
        /\ duckdb_conn # "None" <=> UseDuck(BackendMode(env_backend))
        /\ HandlesOpen(data_backend)

(***************************************************************************)
(* Claims about the order and the equivalence of the latest-forecasts      *)
(* operations (SpecHybrid).                                                *)
(***************************************************************************)
\* quote_ts descending, then exp_date ascending among equal quote_ts
LatestOrdered(s) ==
    \A i, j \in 1..Len(s) :
        i < j => \/ s[i].quote_ts > s[j].quote_ts
                 \/ s[i].quote_ts = s[j].quote_ts /\ s[i].exp_date <= s[j].exp_date

\* The records the claim expects of either adapter: those of the symbol from
\* the last day whose horizon is requested.
LatestMatching(store, symbol, horizons) ==
    {x \in store : /\ x.underlying = symbol
                   /\ x.horizon \in horizons
                   /\ x.quote_ts >= Today - 1}

AdapterEquivalence(d, p, expected) ==
    /\ d = p
    /\ Len(d) = Min(LatestLimit, Cardinality(expected))
    /\ MapRange(d) \subseteq expected
    /\ LatestOrdered(d)

\* C29: when both stores hold the same records, get_latest_forecasts of the
\* DuckDB adapter and of the Postgres adapter return the same sequence: the
\* at most 50 requested-horizon records of the symbol from the last day, by
\* quote_ts descending then exp_date ascending, for every horizons set
\* including the empty one.
C29_AdapterEquivalence ==
    (call.op = "get_latest_forecasts" /\ Answered /\ duck_store = pg_store /\ Unraced) =>
        AdapterEquivalence(DuckAnswer, PgAnswer,
                           LatestMatching(pg_store, call.symbol, call.horizons))

StrictlyAscending(s) == \A i, j \in 1..Len(s) : i < j => s[i].quote_ts < s[j].quote_ts

HybridOrdering(out) ==
    /\ call.op = "get_latest_forecasts" => (Len(out) <= LatestLimit /\ LatestOrdered(out))
    /\ call.op = "get_history_for_symbol_exp" => StrictlyAscending(out)

\* C30: what the hybrid backend returns from get_latest_forecasts has at most
\* 50 records, by quote_ts descending then exp_date ascending, and what it
\* returns from get_history_for_symbol_exp is strictly ascending in quote_ts.
C30_HybridOrdering ==
    (call.op # "none" /\ call.mode = "hybrid" /\ result.status = "ok") =>
        HybridOrdering(result.data)

=============================================================================
